---------------------------- MODULE Spec2Model ----------------------------
(***************************************************************************)
(* Per-shard history engine of the workflow service: the update loop of    *)
(* historyEngineImpl, the workflowExecutionContext that persists one run,  *)
(* and the mutable-state builder contract they drive.                      *)
(*                                                                         *)
(* One workflow run lives in the execution store.  Writers are engine      *)
(* instances holding their own cached workflowExecutionContext for the     *)
(* run (the cache of a host may trail the store); every handler is a loop  *)
(* of load / apply / persist attempts, and the store is read or written    *)
(* only in the load and in the persist.                                    *)
(***************************************************************************)
EXTENDS Integers, Sequences, FiniteSets, TLC

(***************************************************************************)
(* Bounds of the model                                                     *)
(***************************************************************************)
MaxEventID == 7          \* no new request is accepted once NextEventID exceeds it (LastAcceptedEventID)
MaxBuffered == 1         \* no signal is sent while more events are buffered
MaxRemote == 1           \* updates by other engine instances behind a cached context
MaxTokenAttempt == 1     \* decisions of a later attempt are not answered
MaxRuns == 3             \* RunIDs generated by StartWorkflowExecution
MaxPollEventID == 5      \* the polled run is not updated beyond this NextEventID
MaxNotifications == 2    \* events the notifier holds before it dispatches them
MaxChannel == 1          \* buffer of the channel of a subscriber
MaxSuccessorHistories == 1 \* no ContinueAsNew is answered once as many successors have events
MaxReplicaEventID == 4   \* no event is replicated once the NextEventID of the replica exceeds it
MaxTransferTasks == 3    \* transfer tasks written to the shard
TransferTaskBatchSize == 2 \* the batch size of the completion loop
MaxHistoryBatches == 3   \* event batches of the run in the history store
MaxBatchEvents == 2      \* events of one batch
MaxReplicationTasks == 2 \* replication tasks waiting in the queue
defaultHistoryPageSize == 2 \* batches of one page of the history store (1000 in the code)

Writers == {"h1"}
RequestIDs == {"r1", "r2"}
SignalRequestIDs == {"", "s1"}
TimerIDs == {"t1"}

(***************************************************************************)
(* Program constants                                                       *)
(***************************************************************************)
conditionalRetryCount == 5
emptyEventID == -23
bufferedEventID == -123
firstEventID == 1
emptyUuid == "none"

Nil == [nil |-> TRUE]

(***************************************************************************)
(* History events                                                          *)
(***************************************************************************)
Event(id, type) == [id |-> id, type |-> type]

\* workflow state changes, decision events and events generated directly
\* from decisions are never buffered
NotBufferedTypes ==
  {"WorkflowExecutionStarted", "WorkflowExecutionCompleted", "WorkflowExecutionFailed",
   "WorkflowExecutionCanceled", "WorkflowExecutionTerminated",
   "DecisionTaskScheduled", "DecisionTaskStarted", "DecisionTaskCompleted", "DecisionTaskFailed",
   "ActivityTaskScheduled", "TimerStarted"}

ClosingTypes ==
  {"WorkflowExecutionCompleted", "WorkflowExecutionFailed",
   "WorkflowExecutionCanceled", "WorkflowExecutionTerminated",
   "WorkflowExecutionContinuedAsNew"}

(***************************************************************************)
(* Mutable state builder.  A builder B is                                  *)
(*   ms    the mutable state being built (executionInfo + pending infos)   *)
(*   base  the persisted snapshot it was loaded from / last persisted      *)
(*   ev    hBuilder.history: events added in this update session           *)
(*   clear clearBufferedEvents                                             *)
(***************************************************************************)
newMutableStateBuilder ==
  [state |-> "Created", closeStatus |-> "None", nextEventID |-> firstEventID,
   lastFirstEventID |-> 0,
   decSched |-> emptyEventID, decStarted |-> emptyEventID, decAttempt |-> 0,
   decReq |-> emptyUuid,
   acts |-> {}, timers |-> {}, buffered |-> <<>>, sigReq |-> {}, sticky |-> FALSE,
   cancelRequested |-> FALSE]

Load(state) == [ms |-> state, base |-> state, ev |-> <<>>, clear |-> FALSE]

isWorkflowExecutionRunning(ms) == ms.state = "Running"
HasPendingDecisionTask(ms) == ms.decSched # emptyEventID
HasInFlightDecisionTask(ms) == ms.decStarted # emptyEventID
isStickyTaskListEnabled(ms) == ms.sticky

IsBufferedEvent(e) == e.id = bufferedEventID
IsCommittedEvent(e) == e.id # bufferedEventID

HasBufferedEvents(B) ==
  \/ Len(B.ms.buffered) > 0
  \/ \E i \in 1..Len(B.ev) : IsBufferedEvent(B.ev[i])

GetPendingDecision(ms, scheduleID) ==
  HasPendingDecisionTask(ms) /\ ms.decSched = scheduleID

ActivityIDs(acts) == {a.sid : a \in acts}
GetActivityInfo(ms, scheduleID) == CHOOSE a \in ms.acts : a.sid = scheduleID
IsActivityPending(ms, scheduleID) == scheduleID \in ActivityIDs(ms.acts)

shouldBufferEvent(ms, type) ==
  HasInFlightDecisionTask(ms) /\ type \notin NotBufferedTypes

\* createNewHistoryEvent: the event takes NextEventID and increments it,
\* unless it has to be buffered behind the in-flight decision
createNewHistoryEvent(B, type) ==
  IF shouldBufferEvent(B.ms, type)
  THEN [B EXCEPT !.ev = Append(@, Event(bufferedEventID, type))]
  ELSE [B EXCEPT !.ev = Append(@, Event(B.ms.nextEventID, type)),
                 !.ms.nextEventID = @ + 1]

LastEventID(B) == B.ev[Len(B.ev)].id

EventTypes(events) == [i \in 1..Len(events) |-> events[i].type]

FlushBufferedEvents(B) ==
  IF HasInFlightDecisionTask(B.ms) THEN B
  ELSE LET committed == SelectSeq(B.ev, IsCommittedEvent)
           sessBuf   == SelectSeq(B.ev, IsBufferedEvent)
           toFlush   == B.ms.buffered \o EventTypes(sessBuf)
           n         == B.ms.nextEventID
           flushed   == [i \in 1..Len(toFlush) |-> Event(n + i - 1, toFlush[i])]
       IN [B EXCEPT !.ev = committed \o flushed,
                    !.ms.nextEventID = n + Len(toFlush),
                    !.ms.buffered = <<>>,
                    !.clear = @ \/ Len(B.ms.buffered) > 0]

AddWorkflowExecutionStartedEvent(B) ==
  [createNewHistoryEvent(B, "WorkflowExecutionStarted") EXCEPT !.ms.state = "Running"]

\* a retry that is scheduled with an event like a first attempt
scheduleDecisionTask_WritesTheEvent(F) ==
  [createNewHistoryEvent(F, "DecisionTaskScheduled")
     EXCEPT !.ms.decSched = F.ms.nextEventID,
            !.ms.decStarted = emptyEventID,
            !.ms.decReq = emptyUuid]

\* the decision scheduled on the flushed builder F; a transient decision
\* (attempt > 0) gets no event until it makes progress, and either way the
\* schedule id is the NextEventID of F
scheduleDecisionTask(F) ==
  [(IF F.ms.decAttempt = 0 THEN createNewHistoryEvent(F, "DecisionTaskScheduled") ELSE F)
     EXCEPT !.ms.decSched = F.ms.nextEventID,
            !.ms.decStarted = emptyEventID,
            !.ms.decReq = emptyUuid]

\* precondition (no pending decision) is checked by the callers' guards
AddDecisionTaskScheduledEvent(B) == scheduleDecisionTask(FlushBufferedEvents(B))

\* the started event of the decision of S, or of a transient decision only
\* the started id
startDecisionTask(S, requestID) ==
  IF S.ms.decAttempt = 0
  THEN [S EXCEPT !.ev = Append(@, Event(S.ms.nextEventID, "DecisionTaskStarted")),
                 !.ms.nextEventID = @ + 1,
                 !.ms.decStarted = S.ms.nextEventID, !.ms.decReq = requestID]
  ELSE [S EXCEPT !.ms.decStarted = S.ms.decSched + 1, !.ms.decReq = requestID]

\* a transient decision whose schedule id is no longer NextEventID is first
\* turned into a regular one with a new scheduled event
AddDecisionTaskStartedEvent(B, requestID) ==
  startDecisionTask(
    IF B.ms.decAttempt > 0 /\ B.ms.decSched # B.ms.nextEventID
    THEN [createNewHistoryEvent(B, "DecisionTaskScheduled") EXCEPT
            !.ms.decAttempt = 0, !.ms.decSched = B.ms.nextEventID]
    ELSE B,
    requestID)

DeleteDecision(B) ==
  [B EXCEPT !.ms.decSched = emptyEventID, !.ms.decStarted = emptyEventID,
            !.ms.decAttempt = 0, !.ms.decReq = emptyUuid]

CanCloseDecision(ms, scheduleID, startedID) ==
  GetPendingDecision(ms, scheduleID) /\ ms.decStarted = startedID

AddDecisionTaskCompletedEvent(B) ==
  LET D == DeleteDecision(B)
      T == IF B.ms.decAttempt > 0
           THEN createNewHistoryEvent(createNewHistoryEvent(D, "DecisionTaskScheduled"),
                                      "DecisionTaskStarted")
           ELSE D
  IN createNewHistoryEvent(T, "DecisionTaskCompleted")

\* returns the builder unchanged (a nil event) when the decision is not the
\* pending started one
AddDecisionTaskFailedEvent(B, scheduleID, startedID) ==
  IF ~CanCloseDecision(B.ms, scheduleID, startedID) THEN B
  ELSE LET E == IF B.ms.decAttempt = 0
                THEN createNewHistoryEvent(B, "DecisionTaskFailed")
                ELSE B
       IN [E EXCEPT !.ms.decSched = emptyEventID, !.ms.decStarted = emptyEventID,
                    !.ms.decReq = emptyUuid, !.ms.decAttempt = @ + 1,
                    !.ms.sticky = FALSE]

NewActivityInfo(sid) ==
  [sid |-> sid, started |-> emptyEventID, req |-> emptyUuid, hb |-> 0,
   cancelRequested |-> FALSE]

AddActivityTaskScheduledEvent(B) ==
  LET E == createNewHistoryEvent(B, "ActivityTaskScheduled")
  IN [E EXCEPT !.ms.acts = @ \cup {NewActivityInfo(LastEventID(E))}]

AddActivityTaskStartedEvent(B, scheduleID, requestID) ==
  LET E  == createNewHistoryEvent(B, "ActivityTaskStarted")
      ai == GetActivityInfo(B.ms, scheduleID)
  IN [E EXCEPT !.ms.acts = (@ \ {ai}) \cup
                 {[ai EXCEPT !.started = LastEventID(E), !.req = requestID]}]

AddActivityTaskCompletedEvent(B, scheduleID) ==
  LET E == createNewHistoryEvent(B, "ActivityTaskCompleted")
  IN [E EXCEPT !.ms.acts = {a \in @ : a.sid # scheduleID}]

\* the event is added; the activity is marked when it is pending
AddActivityTaskCancelRequestedEvent(B, scheduleID) ==
  LET E == createNewHistoryEvent(B, "ActivityTaskCancelRequested")
  IN IF ~IsActivityPending(B.ms, scheduleID) THEN E
     ELSE LET ai == GetActivityInfo(B.ms, scheduleID)
          IN [E EXCEPT !.ms.acts = (@ \ {ai}) \cup {[ai EXCEPT !.cancelRequested = TRUE]}]

AddRequestCancelActivityTaskFailedEvent(B) ==
  createNewHistoryEvent(B, "RequestCancelActivityTaskFailed")

AddActivityTaskFailedEvent(B, scheduleID) ==
  LET E == createNewHistoryEvent(B, "ActivityTaskFailed")
  IN [E EXCEPT !.ms.acts = {a \in @ : a.sid # scheduleID}]

AddActivityTaskCanceledEvent(B, scheduleID) ==
  LET E == createNewHistoryEvent(B, "ActivityTaskCanceled")
  IN [E EXCEPT !.ms.acts = {a \in @ : a.sid # scheduleID}]

updateActivityProgress(B, scheduleID, details) ==
  LET ai == GetActivityInfo(B.ms, scheduleID)
  IN [B EXCEPT !.ms.acts = (@ \ {ai}) \cup {[ai EXCEPT !.hb = details]}]

\* a nil timer info (the builder unchanged) for a duplicate timer id
AddTimerStartedEvent(B, timerID) ==
  IF timerID \in B.ms.timers THEN B
  ELSE [createNewHistoryEvent(B, "TimerStarted") EXCEPT !.ms.timers = @ \cup {timerID}]

AddWorkflowClosedEvent(B, type, status) ==
  [createNewHistoryEvent(B, type) EXCEPT !.ms.state = "Completed",
                                         !.ms.closeStatus = status]

AddWorkflowExecutionSignaled(B) == createNewHistoryEvent(B, "WorkflowExecutionSignaled")

AddWorkflowExecutionCancelRequestedEvent(B) ==
  [createNewHistoryEvent(B, "WorkflowExecutionCancelRequested") EXCEPT
     !.ms.cancelRequested = TRUE]

clearStickyness(B) == [B EXCEPT !.ms.sticky = FALSE]

\* CloseUpdateSession: the snapshot of the updates accumulated since the load
sessionUpdates(F, newBufferedEvents) ==
  [ms |-> [F.ms EXCEPT !.buffered = @ \o newBufferedEvents], base |-> F.base,
   events |-> SelectSeq(F.ev, IsCommittedEvent),
   newBufferedEvents |-> newBufferedEvents,
   clearBufferedEvents |-> F.clear,
   upsertActivityInfos |-> F.ms.acts \ F.base.acts,
   deleteActivityInfos |-> ActivityIDs(F.base.acts) \ ActivityIDs(F.ms.acts),
   upsertTimerInfos |-> F.ms.timers \ F.base.timers,
   deleteTimerInfos |-> F.base.timers \ F.ms.timers,
   upsertSignalRequestedIDs |-> F.ms.sigReq \ F.base.sigReq]

CloseUpdateSession(B) ==
  sessionUpdates(FlushBufferedEvents(B),
                 EventTypes(SelectSeq(FlushBufferedEvents(B).ev, IsBufferedEvent)))

(***************************************************************************)
(* Execution store and history store                                       *)
(***************************************************************************)
\* the conditional update: executionInfo is written as a whole, the pending
\* infos are upserted / deleted entry by entry
UpdateWorkflowExecution(stored, U) ==
  [U.ms EXCEPT
     !.acts = {a \in stored.acts :
                 a.sid \notin U.deleteActivityInfos \cup ActivityIDs(U.upsertActivityInfos)}
              \cup U.upsertActivityInfos,
     !.timers = (stored.timers \ U.deleteTimerInfos) \cup U.upsertTimerInfos,
     !.sigReq = stored.sigReq \cup U.upsertSignalRequestedIDs,
     !.buffered = (IF U.clearBufferedEvents THEN <<>> ELSE stored.buffered)
                  \o U.newBufferedEvents]

\* the history store as its readers see it: the batches of the successful
\* updates, read in the order of event ids up to NextEventID
AppendHistoryEvents(history, events) == history \o EventTypes(events)

(***************************************************************************)
(* Tasks created by the handlers                                           *)
(***************************************************************************)
Task(type, sid) == [type |-> type, sid |-> sid]

TaskTypes(tasks) == {tasks[i].type : i \in 1..Len(tasks)}
CountType(tasks, type) == Cardinality({i \in 1..Len(tasks) : tasks[i].type = type})

\* the deletion tasks without the history cleanup timer
getDeleteWorkflowTasks_NoCleanupTimer ==
  [closeTask |-> Task("CloseExecution", 0), cleanupTask |-> Task("UserTimer", 0)]

\* getDeleteWorkflowTasks: the close transfer task and the history cleanup timer
getDeleteWorkflowTasks ==
  [closeTask |-> Task("CloseExecution", 0), cleanupTask |-> Task("DeleteHistoryEvent", 0)]

(***************************************************************************)
(* Responses and outcomes of one attempt of a handler                      *)
(***************************************************************************)
Response(kind, body) == [kind |-> kind, body |-> body]
NoResponse == Response("none", <<>>)

ErrorKinds ==
  {"EntityNotExists", "ErrWorkflowCompleted", "ErrActivityTaskNotFound", "EventAlreadyStarted",
   "ErrCancellationAlreadyRequested", "BadRequest", "ErrMaxAttemptsExceeded",
   "PersistenceError", "Panic"}

\* act: "persist" (go on to updateWorkflowExecution), "return" (leave the
\* handler), "stale" (clear the context and retry), "panic" (nil dereference)
Outcome(act, B, tt, tm, rsp, err, failed) ==
  [act |-> act, B |-> B, tt |-> tt, tm |-> tm, resp |-> rsp, err |-> err, failed |-> failed,
   cause |-> "", already |-> FALSE]

ReturnOutcome(B, kind)  == Outcome("return", B, <<>>, <<>>, Response(kind, <<>>), "", FALSE)
StaleOutcome(B)         == Outcome("stale", B, <<>>, <<>>, NoResponse, "", FALSE)
PersistOutcome(B, tt, tm, rsp) == Outcome("persist", B, tt, tm, rsp, "", FALSE)

createRecordDecisionTaskStartedResponse(ms) ==
  Response("ok", <<ms.decSched, ms.decStarted, ms.decAttempt, ms.nextEventID,
                     isStickyTaskListEnabled(ms)>>)

(***************************************************************************)
(* RecordDecisionTaskStarted: one iteration of Update_History_Loop         *)
(***************************************************************************)
\* the update request and the response once the decision is started in S
decisionStarted(S) ==
  PersistOutcome(S, <<>>, <<Task("DecisionTimeout", S.ms.decSched)>>,
                 createRecordDecisionTaskStartedResponse(S.ms))

\* a handler that takes its cached state for the stored one
RecordDecisionTaskStarted_TrustsTheCache(B, req) ==
  IF ~isWorkflowExecutionRunning(B.ms) \/ ~GetPendingDecision(B.ms, req.sid)
  THEN ReturnOutcome(B, "EntityNotExists")
  ELSE IF B.ms.decStarted # emptyEventID
  THEN IF B.ms.decReq = req.rid
       THEN [Outcome("return", B, <<>>, <<>>,
                     createRecordDecisionTaskStartedResponse(B.ms), "", FALSE)
               EXCEPT !.already = TRUE]
       ELSE ReturnOutcome(B, "EventAlreadyStarted")
  ELSE decisionStarted(AddDecisionTaskStartedEvent(B, req.rid))

RecordDecisionTaskStarted(B, req) ==
  LET isRunning == GetPendingDecision(B.ms, req.sid)
  IN IF ~isRunning /\ req.sid >= B.ms.nextEventID THEN StaleOutcome(B)
     ELSE IF ~isWorkflowExecutionRunning(B.ms) \/ ~isRunning
     THEN ReturnOutcome(B, "EntityNotExists")
     ELSE IF B.ms.decStarted # emptyEventID
     THEN IF B.ms.decReq = req.rid
          THEN [Outcome("return", B, <<>>, <<>>,
                        createRecordDecisionTaskStartedResponse(B.ms), "", FALSE)
                  EXCEPT !.already = TRUE]
          ELSE ReturnOutcome(B, "EventAlreadyStarted")
     ELSE decisionStarted(AddDecisionTaskStartedEvent(B, req.rid))

(***************************************************************************)
(* Actions handed to updateWorkflowExecution.  An action result is         *)
(*   err  "" or the error returned by the action                           *)
(*   B    the builder after the action                                     *)
(*   tm   timer tasks, rsp the response filled in by the action            *)
(***************************************************************************)
ActionResult(err, B, tm, rsp) ==
  [err |-> err, B |-> B, tm |-> tm, resp |-> rsp, already |-> FALSE]
ActionError(err, B) == ActionResult(err, B, <<>>, NoResponse)
ActionOk(B) == ActionResult("", B, <<>>, Response("ok", <<>>))

RecordActivityTaskStartedAction(B, req) ==
  IF ~isWorkflowExecutionRunning(B.ms) THEN ActionError("ErrWorkflowCompleted", B)
  ELSE IF ~IsActivityPending(B.ms, req.sid)
  THEN IF req.sid >= B.ms.nextEventID THEN ActionError("ErrStaleState", B)
       ELSE ActionError("ErrActivityTaskNotFound", B)
  ELSE LET ai == GetActivityInfo(B.ms, req.sid)
       IN IF ai.started # emptyEventID
          THEN IF ai.req = req.rid
               THEN [ActionResult("", B, <<>>, Response("ok", <<ai.sid, ai.started>>))
                       EXCEPT !.already = TRUE]
               ELSE ActionError("EventAlreadyStarted", B)
          ELSE LET S == AddActivityTaskStartedEvent(B, req.sid, req.rid)
               IN ActionResult("", S, <<Task("ActivityTimeout", req.sid)>>,
                               Response("ok", <<req.sid, GetActivityInfo(S.ms, req.sid).started>>))

\* the guard shared by the activity responses and the heartbeat
ActivityStartedGuard(B, req) ==
  IF ~isWorkflowExecutionRunning(B.ms) THEN "ErrWorkflowCompleted"
  ELSE IF ~IsActivityPending(B.ms, req.sid)
  THEN IF req.sid >= B.ms.nextEventID THEN "ErrStaleState" ELSE "ErrActivityTaskNotFound"
  ELSE IF GetActivityInfo(B.ms, req.sid).started = emptyEventID
  THEN "ErrActivityTaskNotFound"
  ELSE ""

RespondActivityTaskCompletedAction(B, req) ==
  LET g == ActivityStartedGuard(B, req)
  IN IF g # "" THEN ActionError(g, B)
     ELSE ActionOk(AddActivityTaskCompletedEvent(B, req.sid))

RespondActivityTaskFailedAction(B, req) ==
  LET g == ActivityStartedGuard(B, req)
  IN IF g # "" THEN ActionError(g, B)
     ELSE ActionOk(AddActivityTaskFailedEvent(B, req.sid))

RespondActivityTaskCanceledAction(B, req) ==
  LET g == ActivityStartedGuard(B, req)
  IN IF g # "" THEN ActionError(g, B)
     ELSE ActionOk(AddActivityTaskCanceledEvent(B, req.sid))

RecordActivityTaskHeartbeatAction(B, req) ==
  LET g == ActivityStartedGuard(B, req)
  IN IF g # "" THEN ActionError(g, B)
     ELSE ActionResult("", updateActivityProgress(B, req.sid, req.hb), <<>>,
                       Response("ok", <<GetActivityInfo(B.ms, req.sid).cancelRequested>>))

ResetStickyTaskListAction(B, req) ==
  IF ~isWorkflowExecutionRunning(B.ms) THEN ActionOk(B)
  ELSE ActionOk(clearStickyness(B))

RespondDecisionTaskFailedAction(B, req) ==
  IF ~isWorkflowExecutionRunning(B.ms) THEN ActionError("ErrWorkflowCompleted", B)
  ELSE IF \/ ~GetPendingDecision(B.ms, req.sid)
          \/ B.ms.decAttempt # req.att
          \/ B.ms.decStarted = emptyEventID
  THEN ActionError("EntityNotExists", B)
  ELSE ActionOk(AddDecisionTaskFailedEvent(B, B.ms.decSched, B.ms.decStarted))

SignalWorkflowExecutionAction(B, req) ==
  IF ~isWorkflowExecutionRunning(B.ms) THEN ActionError("ErrWorkflowCompleted", B)
  ELSE IF req.rid # "" /\ req.rid \in B.ms.sigReq THEN ActionOk(B)
  ELSE LET R == IF req.rid # "" THEN [B EXCEPT !.ms.sigReq = @ \cup {req.rid}] ELSE B
       IN ActionOk(AddWorkflowExecutionSignaled(R))

RequestCancelWorkflowExecutionAction(B, req) ==
  IF ~isWorkflowExecutionRunning(B.ms) THEN ActionError("ErrWorkflowCompleted", B)
  ELSE IF B.ms.cancelRequested THEN ActionError("ErrCancellationAlreadyRequested", B)
  ELSE ActionOk(AddWorkflowExecutionCancelRequestedEvent(B))

TerminateWorkflowExecutionAction(B, req) ==
  IF ~isWorkflowExecutionRunning(B.ms) THEN ActionError("ErrWorkflowCompleted", B)
  ELSE ActionOk(AddWorkflowClosedEvent(B, "WorkflowExecutionTerminated", "Terminated"))

\* the decision task scheduled by updateWorkflowExecution and by the
\* signal path of SignalWithStartWorkflowExecution when none is pending
\* the tasks of the decision scheduled in S
DecisionTasks(S) ==
  [B |-> S, tt |-> <<Task("DecisionTask", S.ms.decSched)>>,
   tm |-> IF isStickyTaskListEnabled(S.ms)
          THEN <<Task("StickyDecisionTimeout", S.ms.decSched)>> ELSE <<>>]

NoDecisionTasks(B) == [B |-> B, tt |-> <<>>, tm |-> <<>>]

\* a decision scheduled whether or not one is pending
ScheduleDecisionIfNeeded_Always(B) == DecisionTasks(AddDecisionTaskScheduledEvent(B))

ScheduleDecisionIfNeeded(B) ==
  IF HasPendingDecisionTask(B.ms) THEN NoDecisionTasks(B)
  ELSE DecisionTasks(AddDecisionTaskScheduledEvent(B))

(***************************************************************************)
(* updateWorkflowExecution: one iteration of Update_History_Loop up to the *)
(* call of context.updateWorkflowExecution                                 *)
(***************************************************************************)
\* the update request of an action a, with the deletion tasks and the
\* decision d that updateWorkflowExecution adds to it
updateRequest(a, createDeletionTask, d) ==
  [PersistOutcome(d.B,
                  (IF createDeletionTask THEN <<getDeleteWorkflowTasks.closeTask>> ELSE <<>>)
                    \o d.tt,
                  a.tm
                    \o (IF createDeletionTask THEN <<getDeleteWorkflowTasks.cleanupTask>>
                        ELSE <<>>)
                    \o d.tm,
                  a.resp)
     EXCEPT !.already = a.already]

updateWorkflowExecution(a, createDeletionTask, createDecisionTask) ==
  IF a.err = "ErrStaleState" THEN StaleOutcome(a.B)
  ELSE IF a.err # "" THEN ReturnOutcome(a.B, a.err)
  ELSE updateRequest(a, createDeletionTask,
                     IF createDecisionTask THEN ScheduleDecisionIfNeeded(a.B)
                     ELSE NoDecisionTasks(a.B))

(***************************************************************************)
(* RespondDecisionTaskCompleted                                            *)
(***************************************************************************)
\* a decision command: its type, whether its attributes pass validation,
\* and the timer id of a StartTimer
Decision(type, valid, timer) ==
  [type |-> type, valid |-> valid, timer |-> timer, activity |-> emptyEventID]

CloseEventOf(type) ==
  CASE type = "CompleteWorkflowExecution" -> "WorkflowExecutionCompleted"
    [] type = "FailWorkflowExecution"     -> "WorkflowExecutionFailed"
    [] type = "CancelWorkflowExecution"   -> "WorkflowExecutionCanceled"
    [] type = "ContinueAsNewWorkflowExecution" -> "WorkflowExecutionContinuedAsNew"

CloseStatusOf(type) ==
  CASE type = "CompleteWorkflowExecution" -> "Completed"
    [] type = "FailWorkflowExecution"     -> "Failed"
    [] type = "CancelWorkflowExecution"   -> "Canceled"
    [] type = "ContinueAsNewWorkflowExecution" -> "ContinuedAsNew"

\* the locals of one iteration of Update_History_Loop
DecisionLoopState(B) ==
  [B |-> B, failDecision |-> FALSE, failCause |-> "", err |-> "", isComplete |-> FALSE,
   transferTasks |-> <<>>, userTimer |-> FALSE, hasDecisionScheduleActivityTask |-> FALSE]

FailWith(st, cause, err) ==
  [st EXCEPT !.failDecision = TRUE, !.failCause = cause, !.err = err]

\* a close that is added for every closing decision of the batch
closeWorkflow_PicksEveryOne(st, d, hasUnhandledEvents) ==
  IF hasUnhandledEvents THEN FailWith(st, "UnhandledDecision", "")
  ELSE IF ~d.valid THEN FailWith(st, "BadCloseAttributes", "BadRequest")
  ELSE [st EXCEPT !.B = AddWorkflowClosedEvent(@, CloseEventOf(d.type),
                                               CloseStatusOf(d.type)),
                  !.isComplete = TRUE]

\* the cases of the decisions that close the run: of several of them in one
\* batch the first one is picked
closeWorkflow(st, d, hasUnhandledEvents) ==
  IF hasUnhandledEvents THEN FailWith(st, "UnhandledDecision", "")
  ELSE IF st.isComplete THEN st
  ELSE IF ~d.valid THEN FailWith(st, "BadCloseAttributes", "BadRequest")
  ELSE [st EXCEPT !.B = AddWorkflowClosedEvent(@, CloseEventOf(d.type),
                                               CloseStatusOf(d.type)),
                  !.isComplete = TRUE]

\* one case of the switch in Process_Decision_Loop
ProcessDecision(st, d, hasUnhandledEvents) ==
  CASE d.type = "ScheduleActivityTask" ->
         IF ~d.valid THEN FailWith(st, "BadScheduleActivityAttributes", "BadRequest")
         ELSE LET S == AddActivityTaskScheduledEvent(st.B)
              IN [st EXCEPT !.B = S,
                            !.transferTasks = Append(@, Task("ActivityTask", LastEventID(S))),
                            !.hasDecisionScheduleActivityTask = TRUE]
    [] d.type \in {"CompleteWorkflowExecution", "FailWorkflowExecution",
                   "CancelWorkflowExecution", "ContinueAsNewWorkflowExecution"} ->
         closeWorkflow(st, d, hasUnhandledEvents)
    [] d.type = "RequestCancelActivityTask" ->
         IF ~d.valid THEN FailWith(st, "BadRequestCancelActivityAttributes", "BadRequest")
         ELSE LET isRunning == IsActivityPending(st.B.ms, d.activity)
                  R == AddActivityTaskCancelRequestedEvent(st.B, d.activity)
              IN IF ~isRunning
                 THEN [st EXCEPT !.B = AddRequestCancelActivityTaskFailedEvent(R)]
                 ELSE IF GetActivityInfo(R.ms, d.activity).started = emptyEventID
                 THEN [st EXCEPT !.B = AddActivityTaskCanceledEvent(R, d.activity)]
                 ELSE [st EXCEPT !.B = R]
    [] d.type = "StartTimer" ->
         IF ~d.valid THEN FailWith(st, "BadStartTimerAttributes", "BadRequest")
         ELSE LET T == AddTimerStartedEvent(st.B, d.timer)
              IN IF T = st.B THEN FailWith(st, "StartTimerDuplicateID", "")
                 ELSE [st EXCEPT !.B = T, !.userTimer = TRUE]

RECURSIVE ProcessDecisionLoop(_, _, _)
ProcessDecisionLoop(st, decisions, hasUnhandledEvents) ==
  IF decisions = <<>> \/ st.failDecision THEN st
  ELSE ProcessDecisionLoop(ProcessDecision(st, Head(decisions), hasUnhandledEvents),
                           Tail(decisions), hasUnhandledEvents)

\* failDecision: clear any updates made so far, reload the mutable state
\* from the store and add the DecisionTaskFailed event (its result is dropped)
failDecision(stored, scheduleID, startedID) ==
  AddDecisionTaskFailedEvent(Load(stored), scheduleID, startedID)

\* the update request at the end of the iteration: the transfer and timer
\* tasks of the decisions, of the decision scheduled in S and of the close
decisionUpdateRequest(st, S, schedule) ==
  [Outcome("persist", S,
          st.transferTasks
            \o (IF schedule THEN <<Task("DecisionTask", S.ms.decSched)>> ELSE <<>>)
            \o (IF st.isComplete /\ ~st.failDecision
                THEN <<getDeleteWorkflowTasks.closeTask>> ELSE <<>>),
          (IF st.userTimer THEN <<Task("UserTimer", 0)>> ELSE <<>>)
            \o (IF st.hasDecisionScheduleActivityTask /\ S.ms.acts # {}
                THEN <<Task("ActivityTimeout", 0)>> ELSE <<>>)
            \o (IF schedule /\ isStickyTaskListEnabled(S.ms)
                THEN <<Task("StickyDecisionTimeout", S.ms.decSched)>> ELSE <<>>)
            \o (IF st.isComplete /\ ~st.failDecision
                THEN <<getDeleteWorkflowTasks.cleanupTask>> ELSE <<>>),
          Response(IF st.err = "" THEN "ok" ELSE st.err, <<>>),
          st.err, st.failDecision)
     EXCEPT !.cause = st.failCause]

\* a new decision is scheduled when the decision failed or events are
\* buffered; di is dereferenced although AddDecisionTaskScheduledEvent
\* returns nil when a decision is pending in F
scheduleNewDecision(st, F, schedule) ==
  IF schedule /\ HasPendingDecisionTask(F.ms)
  THEN [Outcome("panic", F, <<>>, <<>>, Response("Panic", <<>>), "", st.failDecision)
          EXCEPT !.cause = st.failCause]
  ELSE decisionUpdateRequest(st, IF schedule THEN AddDecisionTaskScheduledEvent(F) ELSE F,
                             schedule)

\* after Process_Decision_Loop: a failed decision drops the builder for a
\* reload from the store
afterDecisions(st, req, stored, startedID, hasUnhandledEvents) ==
  scheduleNewDecision(st,
                      IF st.failDecision THEN failDecision(stored, req.sid, startedID)
                      ELSE st.B,
                      hasUnhandledEvents \/ st.failDecision)

\* decisions processed as if no event were buffered
processDecisions_NoUnhandledEvents(C, req, stored, startedID) ==
  afterDecisions(ProcessDecisionLoop(DecisionLoopState([C EXCEPT !.ms.sticky = req.sticky]),
                                     req.dec, FALSE),
                 req, stored, startedID, HasBufferedEvents(C))

\* the decisions are processed on the builder C that holds the completed
\* event, with the sticky attributes of the request
processDecisions(C, req, stored, startedID) ==
  afterDecisions(ProcessDecisionLoop(DecisionLoopState([C EXCEPT !.ms.sticky = req.sticky]),
                                     req.dec, HasBufferedEvents(C)),
                 req, stored, startedID, HasBufferedEvents(C))

\* one iteration of Update_History_Loop up to the call of
\* context.updateWorkflowExecutionWithContext; stored is the state a reload
\* by failDecision reads
RespondDecisionTaskCompleted(B, req, stored) ==
  IF ~GetPendingDecision(B.ms, req.sid) /\ req.sid >= B.ms.nextEventID THEN StaleOutcome(B)
  ELSE IF \/ ~isWorkflowExecutionRunning(B.ms) \/ ~GetPendingDecision(B.ms, req.sid)
          \/ B.ms.decAttempt # req.att \/ B.ms.decStarted = emptyEventID
  THEN ReturnOutcome(B, "EntityNotExists")
  ELSE processDecisions(AddDecisionTaskCompletedEvent(B), req, stored, B.ms.decStarted)

(***************************************************************************)
(* SignalWithStartWorkflowExecution: one iteration of Just_Signal_Loop.    *)
(* A run that is not running is left alone: the start request is validated *)
(* and a new run is started.                                               *)
(***************************************************************************)
\* validateStartWorkflowExecutionRequest: nil for a start request that has
\* its timeouts, task list and workflow type
validateStartWorkflowExecutionRequest(req) == req.invalid # "startRequest"

SignalWithStartWorkflowExecution(B, req) ==
  IF ~isWorkflowExecutionRunning(B.ms)
  THEN IF validateStartWorkflowExecutionRequest(req)
       THEN Outcome("return", B, <<>>, <<>>, Response("NewRun", <<>>), "", FALSE)
       ELSE Outcome("return", B, <<>>, <<>>, Response("BadRequest", <<>>), "", FALSE)
  ELSE updateRequest(ActionOk(B), FALSE,
                     ScheduleDecisionIfNeeded(AddWorkflowExecutionSignaled(B)))

(***************************************************************************)
(* Requests                                                                *)
(***************************************************************************)
\* invalid: "" for a request that passes the input validation of its
\* handler, else what is wrong with it: "domainUUID" (no DomainUUID),
\* "token" (a task token that does not deserialize) or "startRequest" (a
\* start request that validateStartWorkflowExecutionRequest refuses)
Request(op, sid, rid, att, sticky, dec, hb) ==
  [op |-> op, sid |-> sid, rid |-> rid, att |-> att, sticky |-> sticky, dec |-> dec,
   hb |-> hb, invalid |-> ""]

SimpleRequest(op) == Request(op, 0, "", 0, FALSE, <<>>, 0)

Invalid(req, what) == [req EXCEPT !.invalid = what]

\* getDomainUUID: the domain id of a request that carries a DomainUUID
getDomainUUID(req) == req.invalid # "domainUUID"

\* a task token handed to a client is accepted as it comes
Deserialize_AcceptsAnything(req) == TRUE

\* tokenSerializer.Deserialize: the task token of a request that carries a
\* token written by the serializer
Deserialize(req) == req.invalid # "token"

\* one load / apply iteration of the handler of req on builder B
Handle(B, req, stored) ==
  CASE req.op = "RecordDecisionTaskStarted" -> RecordDecisionTaskStarted(B, req)
    [] req.op = "RespondDecisionTaskCompleted" -> RespondDecisionTaskCompleted(B, req, stored)
    [] req.op = "SignalWithStartWorkflowExecution" -> SignalWithStartWorkflowExecution(B, req)
    [] req.op = "RecordActivityTaskStarted" ->
         updateWorkflowExecution(RecordActivityTaskStartedAction(B, req), FALSE, FALSE)
    [] req.op = "RespondActivityTaskCompleted" ->
         updateWorkflowExecution(RespondActivityTaskCompletedAction(B, req), FALSE, TRUE)
    [] req.op = "RespondActivityTaskFailed" ->
         updateWorkflowExecution(RespondActivityTaskFailedAction(B, req), FALSE, TRUE)
    [] req.op = "RespondActivityTaskCanceled" ->
         updateWorkflowExecution(RespondActivityTaskCanceledAction(B, req), FALSE, TRUE)
    [] req.op = "RecordActivityTaskHeartbeat" ->
         updateWorkflowExecution(RecordActivityTaskHeartbeatAction(B, req), FALSE, FALSE)
    [] req.op = "ResetStickyTaskList" ->
         updateWorkflowExecution(ResetStickyTaskListAction(B, req), FALSE, FALSE)
    [] req.op = "RespondDecisionTaskFailed" ->
         updateWorkflowExecution(RespondDecisionTaskFailedAction(B, req), FALSE, TRUE)
    [] req.op = "SignalWorkflowExecution" ->
         updateWorkflowExecution(SignalWorkflowExecutionAction(B, req), FALSE, TRUE)
    [] req.op = "RequestCancelWorkflowExecution" ->
         updateWorkflowExecution(RequestCancelWorkflowExecutionAction(B, req), FALSE, TRUE)
    [] req.op = "TerminateWorkflowExecution" ->
         updateWorkflowExecution(TerminateWorkflowExecutionAction(B, req), TRUE, FALSE)

(***************************************************************************)
(* State                                                                   *)
(***************************************************************************)
VARIABLES
  execution,      \* the mutable state of the run in the execution store
  history,        \* the history store: the event types of the run, by event id
  ctx,            \* per writer: the cached workflowExecutionContext
  call,           \* per writer: the handler in progress
  started,        \* responses of the calls that started the pending tasks
  workload,       \* the operations the clients of the run use
  remote,         \* updates by other engine instances since a context was loaded
  successor,      \* the runs that ContinueAsNew decisions of the run have written
  last            \* what the last step sent to the stores and returned

\* StartWorkflowExecution
VARIABLES
  current,        \* the current run of the WorkflowID in the execution store
  histories,      \* the RunIDs that have events in the history store
  starter,        \* per caller: the StartWorkflowExecution in progress
  nextRunID,      \* the next fresh RunID
  startLast       \* what the last finished StartWorkflowExecution did

\* GetMutableState
VARIABLES
  run,            \* the committed NextEventID and state of the polled run
  notifier,       \* the history event notifier: its events and the subscriber
  poller,         \* the GetMutableState in progress
  pollLast        \* what the last finished GetMutableState returned

\* the transfer queue processors
VARIABLES
  replica,        \* the mutable state of the replicated run
  queue,          \* the transfer tasks of the shard
  maxReadLevel,   \* the id of the last transfer task written
  isStarted,      \* whether the transfer queue processor runs
  isGlobalDomainEnabled, \* its view of the cluster metadata
  ackLevels,      \* per processor: the ack level of its queueAckMgr
  shardAck,       \* the transfer ack level of the shard
  visibility,     \* the closed executions recorded in the visibility store
  transferLast    \* what the last step of a transfer queue processor did

\* the replicator queue processor
VARIABLES
  historyBatches,   \* the serialized event batches of the run in the history store
  replicationTasks, \* the replication tasks of the shard
  replicatorLast    \* what the last step of the replicator queue processor did

mainVars == <<execution, history, ctx, call, started, workload, remote, successor, last>>
startVars == <<current, histories, starter, nextRunID, startLast>>
pollVars == <<run, notifier, poller, pollLast>>
transferVars ==
  <<replica, queue, maxReadLevel, isStarted, isGlobalDomainEnabled, ackLevels, shardAck,
    visibility, transferLast>>
replicatorVars == <<historyBatches, replicationTasks, replicatorLast>>
vars == <<mainVars, startVars, pollVars, transferVars, replicatorVars>>

\* workflowExecutionContext.clear / a context that was never loaded
clear == [msBuilder |-> Nil, updateCondition |-> 0]

\* a load that takes LastFirstEventID as the update condition
loadWorkflowExecution_LastFirstEventID(c, stored) ==
  IF c.msBuilder # Nil THEN c
  ELSE [msBuilder |-> Load(stored), updateCondition |-> stored.lastFirstEventID]

\* loadWorkflowExecution: the cached builder when there is one, else a load
\* which also takes the update condition
loadWorkflowExecution(c, stored) ==
  IF c.msBuilder # Nil THEN c
  ELSE [msBuilder |-> Load(stored), updateCondition |-> stored.nextEventID]

\* a release that keeps the cached state whatever the handler returns
release_KeepsTheContext(c, kind) == c

\* release(retError) of the cache: the cached mutable state of the context
\* is cleared when the handler returns an error
release(c, kind) == IF kind \in ErrorKinds THEN clear ELSE c

Idle == [pc |-> "idle"]

\* what the last iteration of a handler did.  view: the mutable state the
\* iteration started from; result: "none" when it sent nothing to the
\* stores, else the result of the update; returned: the handler returned
\* resp in this step; base, events, transferTasks, timerTasks: the update
\* request; before, after: the stored state around it
Log(w, req, attempt, view, result, returned, rsp) ==
  [w |-> w, req |-> req, attempt |-> attempt, view |-> view, result |-> result,
   returned |-> returned, resp |-> rsp,
   condition |-> 0, before |-> Nil, after |-> Nil, base |-> Nil, events |-> <<>>,
   transferTasks |-> <<>>, timerTasks |-> <<>>,
   failed |-> FALSE, cause |-> "", already |-> FALSE,
   notifyTimers |-> 0, notifyTransfer |-> FALSE, notifyHistory |-> FALSE]

NoLog == Log("", SimpleRequest("none"), 0, Nil, "none", FALSE, NoResponse)

\* StartWorkflowExecution of a workflow without parent: the started event
\* and the first decision, written as the first batch with the new run
newRun(U) ==
  [ms |-> [U.ms EXCEPT !.lastFirstEventID = firstEventID],
   history |-> AppendHistoryEvents(<<>>, U.events)]

StartedRun ==
  newRun(CloseUpdateSession(AddDecisionTaskScheduledEvent(
    AddWorkflowExecutionStartedEvent(Load(newMutableStateBuilder)))))

(***************************************************************************)
(* StartWorkflowExecution for one WorkflowID.  The execution store keeps   *)
(* the current run of the WorkflowID; the history store keeps the events   *)
(* by RunID.                                                               *)
(***************************************************************************)
Starters == {"s1", "s2"}
StartRequestIDs == {"q1", "q2"}
ReusePolicies == {"AllowDuplicate", "AllowDuplicateFailedOnly", "RejectDuplicate"}
CloseStatuses == {"Completed", "Failed", "Canceled", "Terminated", "TimedOut", "ContinuedAsNew"}
FailedWorkflowCloseState == {"Failed", "Canceled", "Terminated", "TimedOut"}

\* a start request: the client RequestId, the reuse policy, whether it
\* passes validateStartWorkflowExecutionRequest, and the domain: "local",
\* "global" (a replication task is created, which takes a domain lookup) or
\* "unknown" (global, and the lookup fails)
StartRequest(requestID, policy, valid, domain) ==
  [requestID |-> requestID, policy |-> policy, valid |-> valid, domain |-> domain,
   signal |-> FALSE]

\* the start request of a SignalWithStartWorkflowExecution
SignalWithStartRequest(requestID, policy) ==
  [StartRequest(requestID, policy, TRUE, "local") EXCEPT !.signal = TRUE]

StartRequests ==
  {StartRequest(q, p, TRUE, "local") : q \in StartRequestIDs, p \in ReusePolicies}
    \cup {StartRequest("q1", "AllowDuplicate", FALSE, "local"),
          StartRequest("q1", "AllowDuplicate", TRUE, "global"),
          StartRequest("q1", "AllowDuplicate", TRUE, "unknown")}

\* the answers of the execution store to a create
CreateOutcomes == {"answer", "ShardOwnershipLost", "Timeout"}

RunRecord(runID, requestID) ==
  [runID |-> runID, state |-> "Running", closeStatus |-> "None", requestID |-> requestID]

\* CreateWorkflowExecution is accepted for a WorkflowID without a current
\* run, or as the continuation of the current run PreviousRunID
CreateWorkflowExecution(cur, continueAsNew, prevRunID) ==
  IF cur = Nil THEN ~continueAsNew ELSE continueAsNew /\ cur.runID = prevRunID

\* what a step of StartWorkflowExecution ends with: the response, whether
\* the run was created, whether deleteEvents was called, and whether the
\* create goes on with workflowExistsErrHandler
StartResult(kind, runID, created, delete) ==
  [kind |-> kind, runID |-> runID, created |-> created, delete |-> delete]

\* createWorkflow that returns the error of a create rejected for a run with
\* the same RequestId
createWorkflow_NoRequestIdCheck(cur, req, runID, isBrandNew, prevRunID, outcome) ==
  IF outcome = "ShardOwnershipLost" THEN StartResult("ShardOwnershipLost", 0, FALSE, TRUE)
  ELSE IF outcome = "Timeout" THEN StartResult("Timeout", 0, FALSE, FALSE)
  ELSE IF CreateWorkflowExecution(cur, ~isBrandNew, prevRunID)
  THEN StartResult("ok", runID, TRUE, FALSE)
  ELSE StartResult("AlreadyStarted", cur.runID, FALSE, FALSE)

\* createWorkflow: the create call and the handling of its error
createWorkflow(cur, req, runID, isBrandNew, prevRunID, outcome) ==
  IF outcome = "ShardOwnershipLost" THEN StartResult("ShardOwnershipLost", 0, FALSE, TRUE)
  ELSE IF outcome = "Timeout" THEN StartResult("Timeout", 0, FALSE, FALSE)
  ELSE IF CreateWorkflowExecution(cur, ~isBrandNew, prevRunID)
  THEN StartResult("ok", runID, TRUE, FALSE)
  ELSE IF cur.requestID = req.requestID
  THEN StartResult("ok", cur.runID, FALSE, TRUE)
  ELSE StartResult("AlreadyStarted", cur.runID, FALSE, FALSE)

\* a handler that lets AllowDuplicateFailedOnly reuse the id after any close
workflowExistsErrHandler_AnyCloseStatus(prev, policy) ==
  IF prev.state # "Completed"
  THEN StartResult("WorkflowExecutionAlreadyStarted", prev.runID, FALSE, TRUE)
  ELSE IF policy = "RejectDuplicate"
  THEN StartResult("WorkflowExecutionAlreadyStarted", prev.runID, FALSE, TRUE)
  ELSE StartResult("", prev.runID, FALSE, FALSE)

\* workflowExistsErrHandler: the reuse policy applied to the run reported by
\* the rejected create; kind "" lets the create be retried
workflowExistsErrHandler(prev, policy) ==
  IF prev.state # "Completed"
  THEN StartResult("WorkflowExecutionAlreadyStarted", prev.runID, FALSE, TRUE)
  ELSE CASE policy = "AllowDuplicateFailedOnly" ->
              IF prev.closeStatus \notin FailedWorkflowCloseState
              THEN StartResult("WorkflowExecutionAlreadyStarted", prev.runID, FALSE, TRUE)
              ELSE StartResult("", prev.runID, FALSE, FALSE)
         [] policy = "AllowDuplicate" -> StartResult("", prev.runID, FALSE, FALSE)
         [] policy = "RejectDuplicate" ->
              StartResult("WorkflowExecutionAlreadyStarted", prev.runID, FALSE, TRUE)

\* what the last finished call of StartWorkflowExecution did.  newRunID: the
\* RunID it generated; appended: its history was written; prior, after: the
\* current run in the store before and after its last create; outcome: the
\* answer of the store to that create; rejected: the store refused it
StartLog(s, req, r, newRunID, appended, prior, outcome, rejected) ==
  [s |-> s, req |-> req, kind |-> r.kind, runID |-> r.runID, created |-> r.created,
   newRunID |-> newRunID, appended |-> appended, prior |-> prior, outcome |-> outcome,
   rejected |-> rejected,
   after |-> IF r.created THEN RunRecord(newRunID, req.requestID) ELSE prior]

NoStartLog ==
  StartLog("", StartRequest("", "", TRUE, "local"), StartResult("none", 0, FALSE, FALSE),
           0, FALSE, Nil, "", FALSE)

StartIdle == [pc |-> "idle"]

StartInit ==
  /\ current = Nil
  /\ histories = {}
  /\ starter = [s \in Starters |-> StartIdle]
  /\ nextRunID = 1
  /\ startLast = NoStartLog

(***************************************************************************)
(* GetMutableState with long poll on one run.  The committed run is what   *)
(* getMutableState reads through the workflow context; an update and its   *)
(* NotifyNewHistoryEvent happen under the lock of that context.  The       *)
(* notifier hands the events to the channel of the subscriber.             *)
(***************************************************************************)
ExpectedNextEventIDs == {firstEventID} \cup (3..(MaxPollEventID + 1))

\* the projection of the mutable state / a history event notification
Projection(nextEventID, isWorkflowRunning) ==
  [nextEventID |-> nextEventID, isWorkflowRunning |-> isWorkflowRunning]

\* a poll that waits only for an id above the current NextEventID
longPoll_OnlyAboveNextEventID(expectedNextEventID, response) ==
  expectedNextEventID > response.nextEventID /\ response.isWorkflowRunning

\* the caller long polls
longPoll(expectedNextEventID, response) ==
  expectedNextEventID >= response.nextEventID /\ response.isWorkflowRunning

\* a wait that any notification ends
wakes_OnAnyNotification(expectedNextEventID, response) == TRUE

\* the state the caller waits for
wakes(expectedNextEventID, response) ==
  expectedNextEventID < response.nextEventID \/ ~response.isWorkflowRunning

\* a long poll that keeps its first read
reread_KeepsFirstRead(first, committed) == first

\* check again in case the next event ID is updated
reread(first, committed) == committed

\* the notifier keeps the newest events for a subscriber that is slow
Offer(channel, event) ==
  IF Len(channel) < MaxChannel THEN Append(channel, event)
  ELSE Append(Tail(channel), event)

\* what the last finished GetMutableState returned.  via: "immediate",
\* "reread", "notification", "timer" or "done"; first: its first read
PollLog(kind, via, expected, first, response) ==
  [kind |-> kind, via |-> via, expected |-> expected, first |-> first,
   response |-> response]

NoPollLog == PollLog("none", "", 0, Nil, Nil)

PollIdle == [pc |-> "idle"]

PollInit ==
  /\ run = Projection(3, TRUE)
  /\ notifier = [subscribed |-> FALSE, events |-> <<>>, channel |-> <<>>]
  /\ poller = PollIdle
  /\ pollLast = NoPollLog

\* the operations used on the run: its decision tasks are polled and
\* answered while clients signal it, or while its activities run, or while
\* clients cancel and terminate it
SignalWorkload ==
  {"RecordDecisionTaskStarted", "RespondDecisionTaskCompleted",
   "SignalWorkflowExecution", "SignalWithStartWorkflowExecution"}
ActivityWorkload ==
  {"RecordDecisionTaskStarted", "RespondDecisionTaskCompleted",
   "RecordActivityTaskStarted", "RespondActivityTaskCompleted",
   "RespondActivityTaskFailed", "RespondActivityTaskCanceled",
   "RecordActivityTaskHeartbeat", "ResetStickyTaskList"}
CancelWorkload ==
  {"RecordDecisionTaskStarted", "RespondDecisionTaskCompleted",
   "RespondDecisionTaskFailed", "RequestCancelWorkflowExecution",
   "TerminateWorkflowExecution"}
Workloads == {SignalWorkload, ActivityWorkload, CancelWorkload}

\* the workers of a run that heartbeat its activity and complete it
HeartbeatWorkload ==
  {"RecordDecisionTaskStarted", "RespondDecisionTaskCompleted",
   "RecordActivityTaskHeartbeat", "RespondActivityTaskCompleted"}

(***************************************************************************)
(* The transfer queue processors of one shard.  The shard holds one run of *)
(* a global domain whose active cluster is "s1": its events arrive by      *)
(* replication and the standby processor of s1 verifies its transfer       *)
(* tasks.  Runs of a local domain add tasks that only the active processor *)
(* handles.                                                                *)
(***************************************************************************)
Standbys == {"s1", "s2"}
TransferProcessors == {"active"} \cup Standbys

VerifiedTaskTypes ==
  {"ActivityTask", "DecisionTask", "CancelExecution", "SignalExecution",
   "StartChildExecution"}
TransferTaskTypes == VerifiedTaskTypes \cup {"CloseExecution"}

\* a TransferTaskInfo; domain: "local", or the active cluster of its global
\* domain
TransferTaskInfo(taskID, type, scheduleID, domain) ==
  [taskID |-> taskID, type |-> type, scheduleID |-> scheduleID, domain |-> domain]

\* the pending info that the initiating event of a task leaves in the
\* mutable state: kind is the type of the task, started whether its StartedID
\* is set
PendingInfo(id, kind, startedIDSet) == [id |-> id, kind |-> kind, started |-> startedIDSet]

\* the context of the run in the history cache of the standby side without
\* a mutable state
clearedContext == [loaded |-> FALSE, nextEventID |-> 0, running |-> FALSE, infos |-> {}]

\* the context with the mutable state of r
loadedContext(r) ==
  [loaded |-> TRUE, nextEventID |-> r.nextEventID, running |-> r.running,
   infos |-> r.infos]

\* load: what loadWorkflowExecution returns for the run, "nil" with the
\* mutable state; cache: the context of the run in the history cache;
\* retried: the tasks that a standby processor holds for another attempt
ReplicaState(nextEventID, running, infos) ==
  [nextEventID |-> nextEventID, running |-> running, infos |-> infos, load |-> "nil",
   cache |-> clearedContext, retried |-> {}]

\* a replication that writes the store behind the context of the cache
replicateWorkflowExecution_BehindTheCache(next) == next

\* replicateWorkflowExecution: the events are applied to the mutable state
\* of the context, which updateHelper persists; next is the stored run
\* after the update
replicateWorkflowExecution(next) == [next EXCEPT !.cache = loadedContext(next)]

\* Process_Loop of processTransfer up to the state that fn is called on: the
\* mutable state of the context, or, when the context has none or the task
\* is not below its NextEventID, what a load from the store gives
loadedForTask(r, load, task) ==
  IF r.cache.loaded /\ task.scheduleID < r.cache.nextEventID
  THEN [r EXCEPT !.nextEventID = r.cache.nextEventID, !.running = r.cache.running,
                 !.infos = r.cache.infos, !.load = "nil"]
  ELSE [r EXCEPT !.load = load]

\* the context that processTransfer leaves behind: release(nil) keeps the
\* loaded state when the task is done or is to be retried, release(err)
\* clears it
releasedContext(ms, err) ==
  IF err \in {"nil", "ErrTaskRetry"} /\ ms.load = "nil" THEN loadedContext(ms)
  ELSE clearedContext

\* GetActivityInfo, GetPendingDecision, GetRequestCancelInfo, GetSignalInfo,
\* GetChildExecutionInfo: the pending infos of the kind under scheduleID
GetInfo(ms, kind, scheduleID) == {i \in ms.infos : i.kind = kind /\ i.id = scheduleID}

\* transferTaskFilter of the standby processor of clusterName: the task is
\* of a global domain whose active cluster is clusterName
transferTaskFilter(clusterName, task) ==
  task.domain # "local" /\ task.domain = clusterName

\* what process makes of a task: its error, the calls it made to other
\* services, whether it completed the task in the queueAckMgr
Processed_CompletesWhateverTheError(err, calls) ==
  [err |-> err, calls |-> calls, completed |-> TRUE]

Processed(err, calls) ==
  [err |-> err, calls |-> calls, completed |-> err \in {"nil", "EntityNotExists"}]

\* the verification of a task whose StartedID is set by the active side
verifyStarted(ms, task) ==
  IF \E i \in GetInfo(ms, task.type, task.scheduleID) : ~i.started
  THEN "ErrTaskRetry" ELSE "nil"

\* the verification of a task whose info is removed by the active side
verifyRemoved(ms, task) ==
  IF GetInfo(ms, task.type, task.scheduleID) # {} THEN "ErrTaskRetry" ELSE "nil"

\* a standby that acks an activity task that is still waiting to be started
processActivityTask_NeverRetries(ms, task) == Processed("nil", {})

processActivityTask(ms, task) == Processed(verifyStarted(ms, task), {})
processDecisionTask(ms, task) == Processed(verifyStarted(ms, task), {})
processCancelExecution(ms, task) == Processed(verifyRemoved(ms, task), {})
processSignalExecution(ms, task) == Processed(verifyRemoved(ms, task), {})
processStartChildExecution(ms, task) == Processed(verifyStarted(ms, task), {})

\* a close that replies to the parent as the active processor does
processCloseExecution_RepliesToParent(ms, task) ==
  Processed("nil", {"visibility.RecordWorkflowExecutionClosed",
                    "history.RecordChildExecutionCompleted"})

processCloseExecution(ms, task) ==
  Processed("nil", {"visibility.RecordWorkflowExecutionClosed"})

\* processTransfer on the mutable state that every load of the loop reads:
\* fn is what the function of the task type gives on it
processTransfer(processTaskIfClosed, ms, task, fn) ==
  IF ms.load # "nil" THEN Processed(ms.load, {})
  ELSE IF task.scheduleID >= ms.nextEventID THEN Processed("ErrMaxAttemptsExceeded", {})
  ELSE IF ~processTaskIfClosed /\ ~ms.running THEN Processed("nil", {})
  ELSE fn

\* process of the standby processor of clusterName
process(clusterName, ms, task) ==
  IF ~transferTaskFilter(clusterName, task) THEN Processed("nil", {})
  ELSE CASE task.type = "ActivityTask" ->
              processTransfer(FALSE, ms, task, processActivityTask(ms, task))
         [] task.type = "DecisionTask" ->
              processTransfer(FALSE, ms, task, processDecisionTask(ms, task))
         [] task.type = "CloseExecution" ->
              processTransfer(TRUE, ms, task, processCloseExecution(ms, task))
         [] task.type = "CancelExecution" ->
              processTransfer(FALSE, ms, task, processCancelExecution(ms, task))
         [] task.type = "SignalExecution" ->
              processTransfer(FALSE, ms, task, processSignalExecution(ms, task))
         [] task.type = "StartChildExecution" ->
              processTransfer(FALSE, ms, task, processStartChildExecution(ms, task))

\* GetTransferTasks: the first batchSize tasks above readLevel and up to
\* maxReadLevel, by task id
RECURSIVE GetTransferTasks(_, _, _, _)
GetTransferTasks(tasks, readLevel, maxLevel, batchSize) ==
  LET range == {t \in tasks : readLevel < t.taskID /\ t.taskID <= maxLevel}
  IN IF range = {} \/ batchSize = 0 THEN <<>>
     ELSE LET first == CHOOSE t \in range : \A u \in range : t.taskID <= u.taskID
          IN <<first>> \o GetTransferTasks(tasks, first.taskID, maxLevel, batchSize - 1)

\* an upper ack level that leaves the standby processors out
upperAckLevel_ActiveOnly(levels, enabled) == levels["active"]

\* upperAckLevel of completeTransfer: the ack level of the active processor,
\* lowered to those of the standby processors when global domains are enabled
upperAckLevel(levels, enabled) ==
  IF enabled
  THEN CHOOSE l \in {levels[p] : p \in TransferProcessors} :
         \A p \in TransferProcessors : l <= levels[p]
  ELSE levels["active"]

\* the tasks of one batch that are completed, in order, up to the first one
\* above upperAck
RECURSIVE CompletedOfBatch(_, _)
CompletedOfBatch(batch, upperAck) ==
  IF batch = <<>> \/ upperAck < Head(batch).taskID THEN {}
  ELSE {Head(batch)} \cup CompletedOfBatch(Tail(batch), upperAck)

\* LoadCompleteLoop: the tasks that CompleteTransferTask is called for
RECURSIVE LoadCompleteLoop(_, _, _)
LoadCompleteLoop(tasks, lowerAck, upperAck) ==
  LET batch == GetTransferTasks(tasks, lowerAck, upperAck + 1, TransferTaskBatchSize)
      done  == CompletedOfBatch(batch, upperAck)
      more  == Len(batch) >= TransferTaskBatchSize
  IN IF more /\ Cardinality(done) = Len(batch)
     THEN done \cup LoadCompleteLoop(tasks, batch[Len(batch)].taskID, upperAck)
     ELSE done

\* what the last step of a standby processor or of the completion loop did;
\* stored: the run in the store before the step; cached: fn was called on the
\* mutable state of the cached context; retried: the task had returned
\* ErrTaskRetry before
TransferLog(kind, p, task, ms, result, removed, levels, before) ==
  [kind |-> kind, p |-> p, task |-> task, ms |-> ms, result |-> result,
   removed |-> removed, levels |-> levels, before |-> before, load |-> "nil",
   failed |-> {}, stored |-> clearedContext, cached |-> FALSE, retried |-> FALSE]

NoTransferLog == TransferLog("none", "", Nil, Nil, Nil, {}, Nil, 0)

TransferInit ==
  /\ replica = ReplicaState(3, TRUE, {PendingInfo(2, "DecisionTask", FALSE)})
  /\ queue = {TransferTaskInfo(1, "DecisionTask", 2, "s1")}
  /\ maxReadLevel = 1
  /\ isStarted = FALSE
  /\ ackLevels = [p \in TransferProcessors |-> 0]
  /\ shardAck = 0
  /\ visibility = {}
  /\ isGlobalDomainEnabled = FALSE
  /\ transferLast = NoTransferLog

(***************************************************************************)
(* The replicator queue processor: it reads the events of a replication    *)
(* task from the history store and publishes them.                         *)
(***************************************************************************)
\* a row of the history store: the serialized batch of count events from
\* event id first
SerializedHistoryEventBatch(first, count) == [first |-> first, count |-> count]

\* Deserialize of the history serializer: the events of a batch, by id
DeserializeBatch(batch) == [i \in 1..batch.count |-> batch.first + i - 1]

RECURSIVE DeserializeAll(_)
DeserializeAll(rows) ==
  IF rows = <<>> THEN <<>> ELSE DeserializeBatch(Head(rows)) \o DeserializeAll(Tail(rows))

\* the empty NextPageToken
emptyPageToken == 0

\* GetWorkflowExecutionHistory of the history store: the next pageSize rows
\* of the range after the nextPageToken rows that were returned before, and
\* the token of the page that follows, empty when no row is left
GetWorkflowExecutionHistory(store, first, next, pageSize, nextPageToken) ==
  LET rows == SelectSeq(store, LAMBDA b : first <= b.first /\ b.first < next)
      upTo == IF nextPageToken + pageSize < Len(rows)
              THEN nextPageToken + pageSize ELSE Len(rows)
  IN [Events |-> SubSeq(rows, nextPageToken + 1, upTo),
      NextPageToken |-> IF upTo < Len(rows) THEN upTo ELSE emptyPageToken]

\* the loop of getHistory: hasMore is len(nextPageToken) > 0, and
\* nextPageToken is the variable of getHistory, which no iteration assigns
RECURSIVE getHistoryLoop(_, _, _, _, _)
getHistoryLoop(store, first, next, nextPageToken, historyEvents) ==
  LET response == GetWorkflowExecutionHistory(store, first, next,
                                              defaultHistoryPageSize, nextPageToken)
      events == historyEvents \o DeserializeAll(response.Events)
      hasMore == nextPageToken # emptyPageToken
  IN IF hasMore THEN getHistoryLoop(store, first, next, nextPageToken, events)
     ELSE events

getHistory(store, first, next) == getHistoryLoop(store, first, next, emptyPageToken, <<>>)

\* a replication task of the history events [firstEventID, nextEventID)
ReplicationTaskInfo(first, next) == [firstEventID |-> first, nextEventID |-> next]

ReplicatorLog(kind, task, events) == [kind |-> kind, task |-> task, events |-> events]

NoReplicatorLog == ReplicatorLog("none", ReplicationTaskInfo(0, 0), <<>>)

\* the NextEventID of the run whose batches are stored
HistoryNextEventID(store) == store[Len(store)].first + store[Len(store)].count

ReplicatorInit ==
  /\ historyBatches = <<SerializedHistoryEventBatch(firstEventID, 2)>>
  /\ replicationTasks = {}
  /\ replicatorLast = NoReplicatorLog

Init ==
  /\ execution = StartedRun.ms
  /\ history = StartedRun.history
  /\ ctx = [w \in Writers |-> clear]
  /\ call = [w \in Writers |-> Idle]
  /\ started = {}
  /\ workload \in Workloads
  /\ remote = 0
  /\ successor = [histories |-> 0, runs |-> 0]
  /\ last = NoLog
  /\ StartInit
  /\ PollInit
  /\ TransferInit
  /\ ReplicatorInit

(***************************************************************************)
(* Inputs                                                                  *)
(***************************************************************************)
ScheduleActivity == Decision("ScheduleActivityTask", TRUE, "")
BadScheduleActivity == Decision("ScheduleActivityTask", FALSE, "")
StartTimer == Decision("StartTimer", TRUE, "t1")
CompleteWorkflow == Decision("CompleteWorkflowExecution", TRUE, "")
FailWorkflow == Decision("FailWorkflowExecution", TRUE, "")
CancelWorkflow == Decision("CancelWorkflowExecution", TRUE, "")
ContinueAsNew == Decision("ContinueAsNewWorkflowExecution", TRUE, "")
RequestCancelActivity(scheduleID) ==
  [Decision("RequestCancelActivityTask", TRUE, "") EXCEPT !.activity = scheduleID]

\* the decision lists workers answer with
DecisionLists ==
  {<<>>, <<ScheduleActivity>>, <<BadScheduleActivity>>,
   <<ScheduleActivity, BadScheduleActivity>>, <<StartTimer>>, <<StartTimer, StartTimer>>,
   <<CompleteWorkflow>>, <<FailWorkflow>>, <<CancelWorkflow>>, <<ContinueAsNew>>,
   <<ScheduleActivity, CompleteWorkflow>>,
   <<CompleteWorkflow, FailWorkflow>>, <<CancelWorkflow, ContinueAsNew>>,
   <<CompleteWorkflow, ScheduleActivity>>, <<CompleteWorkflow, StartTimer>>}

\* the decision task tokens (schedule id, attempt) and the activity task
\* ids that are live in a mutable state
DecisionTokens(ms) ==
  IF HasPendingDecisionTask(ms) /\ ms.decAttempt <= MaxTokenAttempt
  THEN {[sid |-> ms.decSched, att |-> ms.decAttempt]} ELSE {}

\* the request ids of the polls that matching can hand the task sid: the
\* first poll that gets the task is "r1", a later one is either of the two
Pollers(op, sid) ==
  IF \E s \in started : s.op = op /\ s.sid = sid THEN RequestIDs ELSE {"r1"}

\* the requests that matching, workers and clients can send for the run to
\* a writer whose view of the run is ms: they carry the tokens of the tasks
\* that are live in the store or in that view
AllRequests(ms) ==
  LET decisions  == DecisionTokens(execution) \cup DecisionTokens(ms)
      activities == ActivityIDs(execution.acts) \cup ActivityIDs(ms.acts)
  IN UNION {{Request("RecordDecisionTaskStarted", t.sid, rid, 0, FALSE, <<>>, 0) :
               rid \in Pollers("RecordDecisionTaskStarted", t.sid)} : t \in decisions}
     \cup {Request("RespondDecisionTaskCompleted", t.sid, "", t.att, TRUE, dec, 0) :
        t \in decisions, dec \in DecisionLists}
     \cup {Request("RespondDecisionTaskFailed", t.sid, "", t.att, FALSE, <<>>, 0) :
        t \in decisions}
     \cup UNION {{Request("RecordActivityTaskStarted", sid, rid, 0, FALSE, <<>>, 0) :
                    rid \in Pollers("RecordActivityTaskStarted", sid)} : sid \in activities}
     \cup {Request(op, sid, "", 0, FALSE, <<>>, 1) :
        op \in {"RespondActivityTaskCompleted", "RespondActivityTaskFailed",
                "RespondActivityTaskCanceled", "RecordActivityTaskHeartbeat"},
        sid \in activities}
     \cup {Request("RespondDecisionTaskCompleted", t.sid, "", t.att, TRUE,
                   <<RequestCancelActivity(sid)>>, 0) :
        t \in decisions,
        sid \in IF "RecordActivityTaskHeartbeat" \in workload THEN activities ELSE {}}
     \cup {Request("SignalWorkflowExecution", 0, rid, 0, FALSE, <<>>, 0) :
        rid \in SignalRequestIDs}
     \cup {SimpleRequest(op) :
        op \in {"SignalWithStartWorkflowExecution", "RequestCancelWorkflowExecution",
                "ResetStickyTaskList", "TerminateWorkflowExecution"}}
     \cup {Invalid(SimpleRequest("RespondDecisionTaskCompleted"), what) :
        what \in {"domainUUID", "token"}}
     \cup {Invalid(SimpleRequest("SignalWithStartWorkflowExecution"), what) :
        what \in {"domainUUID", "startRequest"}}

Requests(ms) == {req \in AllRequests(ms) : req.op \in workload}

\* the requests that reach another engine instance while a writer holds the
\* run in its cache: one request of each operation
RemoteRequests ==
  {req \in Requests(execution) : req.dec = <<>> /\ req.rid \in {"", "r1"} /\ req.invalid = ""}

\* the start responses kept for the tasks that are still pending in ms
Started(set, ms) ==
  {s \in set :
     \/ s.op = "RecordDecisionTaskStarted" /\ GetPendingDecision(ms, s.sid)
        /\ ms.decStarted # emptyEventID
     \/ s.op = "RecordActivityTaskStarted" /\ IsActivityPending(ms, s.sid)}

NewStarted(req, out) ==
  IF req.op \in {"RecordDecisionTaskStarted", "RecordActivityTaskStarted"} /\ ~out.already
  THEN {[op |-> req.op, sid |-> req.sid, rid |-> req.rid, body |-> out.resp.body]}
  ELSE {}

(***************************************************************************)
(* Handlers.  A handler is a loop of iterations.  An iteration reads the   *)
(* store when it loads the context (LoadContext) and when it sends the     *)
(* update; what it does in between is local to the writer, so an iteration *)
(* on a loaded context is one step together with its update request.  The  *)
(* iteration of a failed decision reloads the context from the store in    *)
(* the middle, and sends its update in a later step (Persist).             *)
(***************************************************************************)
\* RecordDecisionTaskStarted defers NotifyNewTimers in the iteration, before
\* its update: the calls deferred by the earlier iterations of the handler
\* of w, which run when the handler returns
deferredNotifyNewTimers(w) == IF call[w].pc = "run" THEN call[w].deferred ELSE 0

\* the iteration with this result has passed the defer
defersNotifyNewTimers(req, result) ==
  IF req.op = "RecordDecisionTaskStarted" /\
     result \in {"ok", "conflict", "appendConflict", "error"}
  THEN 1 ELSE 0

\* NotifyNewTimers calls at the return of the handler: the deferred ones of
\* RecordDecisionTaskStarted; the call after the update of the others
NotifyNewTimers(w, req, result) ==
  IF req.op = "RecordDecisionTaskStarted"
  THEN deferredNotifyNewTimers(w) + defersNotifyNewTimers(req, result)
  ELSE IF result = "ok" THEN 1 ELSE 0

\* a loop that allows one iteration more
NextAttempt_OneMore(w, req, attempt, log) ==
  IF attempt + 1 <= conditionalRetryCount
  THEN /\ call' = [call EXCEPT ![w] =
                     [pc |-> "run", req |-> req, attempt |-> attempt + 1,
                      deferred |-> NotifyNewTimers(w, req, log.result)]]
       /\ last' = log
  ELSE /\ call' = [call EXCEPT ![w] = Idle]
       /\ last' = [log EXCEPT !.returned = TRUE,
                              !.resp = Response("ErrMaxAttemptsExceeded", <<>>),
                              !.notifyTimers = NotifyNewTimers(w, req, log.result)]

\* a loop that hands ErrConflict and ErrStaleState to the caller
NextAttempt_ReturnsTheError(w, req, attempt, log) ==
  /\ call' = [call EXCEPT ![w] = Idle]
  /\ last' = [log EXCEPT !.returned = TRUE,
                         !.resp = Response(IF log.result = "stale" THEN "ErrStaleState"
                                           ELSE "ErrConflict", <<>>),
                         !.notifyTimers = NotifyNewTimers(w, req, log.result)]

\* the end of an iteration that did not persist: the next iteration, or
\* ErrMaxAttemptsExceeded after conditionalRetryCount iterations
NextAttempt(w, req, attempt, log) ==
  IF attempt + 1 < conditionalRetryCount
  THEN /\ call' = [call EXCEPT ![w] =
                     [pc |-> "run", req |-> req, attempt |-> attempt + 1,
                      deferred |-> NotifyNewTimers(w, req, log.result)]]
       /\ last' = log
  ELSE /\ call' = [call EXCEPT ![w] = Idle]
       /\ last' = [log EXCEPT !.returned = TRUE,
                              !.resp = Response("ErrMaxAttemptsExceeded", <<>>),
                              !.notifyTimers = NotifyNewTimers(w, req, log.result)]

\* updateHelper up to the update request: the session is closed, the new
\* events (if any) go to the history store and set LastFirstEventID
setLastFirstEventID(U) ==
  IF Len(U.events) > 0 THEN [U EXCEPT !.ms.lastFirstEventID = U.events[1].id] ELSE U

\* an update whose NextEventID runs one ahead of its events
Updates_SkipsAnEventID(B) ==
  setLastFirstEventID(CloseUpdateSession([B EXCEPT !.ms.nextEventID = @ + 1]))

\* an update that sends no events to the history store
Updates_AppendsNothing(B) ==
  [setLastFirstEventID(CloseUpdateSession(B)) EXCEPT !.events = <<>>]

Updates(B) == setLastFirstEventID(CloseUpdateSession(B))

\* continueAsNewBuilder of the iteration: the builder of the successor run
\* that a ContinueAsNewWorkflowExecution decision made, nil after failDecision
continueAsNewBuilder(req, out) ==
  /\ req.op = "RespondDecisionTaskCompleted"
  /\ ~out.failed
  /\ out.B.ms.closeStatus = "ContinuedAsNew"

\* continueAsNewWorkflowExecution: the first batch of the successor goes to
\* the history store under its fresh RunID, then the run is updated; the
\* update creates the successor in the execution store when it succeeds
continueAsNewWorkflowExecution(succ, req, out, updated) ==
  IF continueAsNewBuilder(req, out)
  THEN [histories |-> succ.histories + 1,
        runs |-> IF updated THEN succ.runs + 1 ELSE succ.runs]
  ELSE succ

PersistLog(w, req, attempt, view, out, U, condition, result, after) ==
  [Log(w, req, attempt, view, result, FALSE, NoResponse) EXCEPT
     !.condition = condition, !.before = execution, !.after = after,
     !.base = U.base, !.events = U.events,
     !.transferTasks = out.tt, !.timerTasks = out.tm,
     !.failed = out.failed, !.cause = out.cause, !.already = out.already]

\* the conditional update succeeds
UpdateOk(w, req, attempt, view, out, U, condition) ==
  /\ condition = execution.nextEventID
  /\ execution' = UpdateWorkflowExecution(execution, U)
  /\ history' = AppendHistoryEvents(history, U.events)
  /\ ctx' = [ctx EXCEPT ![w] =
               release([msBuilder |-> Load(U.ms), updateCondition |-> U.ms.nextEventID],
                       out.resp.kind)]
  /\ call' = [call EXCEPT ![w] = Idle]
  /\ started' = Started(started \cup NewStarted(req, out), execution')
  /\ remote' = IF out.err # "" THEN remote ELSE 0
  /\ successor' = continueAsNewWorkflowExecution(successor, req, out, TRUE)
  /\ last' = [PersistLog(w, req, attempt, view, out, U, condition, "ok", execution')
                EXCEPT !.returned = TRUE, !.resp = out.resp,
                       !.notifyTimers = NotifyNewTimers(w, req, "ok"),
                       !.notifyTransfer = Len(out.tt) > 0,
                       !.notifyHistory = TRUE]

\* ConditionFailedError of the update: ErrConflict
UpdateConflict(w, req, attempt, view, out, U, condition) ==
  /\ condition # execution.nextEventID
  /\ ctx' = [ctx EXCEPT ![w] = clear]
  /\ NextAttempt(w, req, attempt,
                 PersistLog(w, req, attempt, view, out, U, condition, "conflict", execution))
  /\ successor' = continueAsNewWorkflowExecution(successor, req, out, FALSE)
  /\ UNCHANGED <<execution, history, started, remote>>

\* ConditionFailedError of the append, on a batch that another writer has
\* stored under the same first event id: ErrConflict
AppendConflict(w, req, attempt, view, out, U, condition) ==
  /\ Len(U.events) > 0
  /\ U.events[1].id <= Len(history)
  /\ ctx' = [ctx EXCEPT ![w] = clear]
  /\ NextAttempt(w, req, attempt,
                 PersistLog(w, req, attempt, view, out, U, condition, "appendConflict",
                            execution))
  /\ successor' = continueAsNewWorkflowExecution(successor, req, out, FALSE)
  /\ UNCHANGED <<execution, history, started, remote>>

\* an error of the stores that is not a ConditionFailedError (a timeout, an
\* unavailable store): the handler returns it and release clears the context
UpdateError(w, req, attempt, view, out, U, condition) ==
  /\ ctx' = [ctx EXCEPT ![w] = clear]
  /\ call' = [call EXCEPT ![w] = Idle]
  /\ last' = [PersistLog(w, req, attempt, view, out, U, condition, "error", execution)
                EXCEPT !.returned = TRUE, !.resp = Response("PersistenceError", <<>>),
                       !.notifyTimers = NotifyNewTimers(w, req, "error")]
  /\ successor' = continueAsNewWorkflowExecution(successor, req, out, FALSE)
  /\ UNCHANGED <<execution, history, started, remote>>

\* context.updateWorkflowExecution and how the loop goes on after it
Update(w, req, attempt, view, out, U, condition) ==
  \/ UpdateOk(w, req, attempt, view, out, U, condition)
  \/ UpdateConflict(w, req, attempt, view, out, U, condition)
  \/ AppendConflict(w, req, attempt, view, out, U, condition)
  \/ UpdateError(w, req, attempt, view, out, U, condition)

\* the log of an iteration that sent nothing to the stores
ReturnLog(w, req, attempt, view, out) ==
  [Log(w, req, attempt, view, "none", TRUE, out.resp) EXCEPT
     !.failed = out.failed, !.cause = out.cause, !.already = out.already,
     !.notifyTimers = NotifyNewTimers(w, req, "none")]

\* one iteration of the loop of a handler on the loaded context; out is
\* what the handler does on the cached builder
Iterate(w, req, attempt, out) ==
  LET c == ctx[w]
  IN CASE out.act = "persist" /\ ~out.failed ->
            Update(w, req, attempt, c.msBuilder.ms, out, Updates(out.B), c.updateCondition)
       [] out.act = "persist" /\ out.failed ->
            \* failDecision has reloaded the context from the store
            /\ ctx' = [ctx EXCEPT ![w] = [msBuilder |-> out.B,
                                          updateCondition |-> execution.nextEventID]]
            /\ call' = [call EXCEPT ![w] = [pc |-> "persist", req |-> req,
                                            attempt |-> attempt, view |-> c.msBuilder.ms,
                                            pend |-> out]]
            /\ last' = NoLog
            /\ UNCHANGED <<execution, history, started, remote, successor>>
       [] out.act = "return" ->
            /\ ctx' = [ctx EXCEPT ![w] = release([c EXCEPT !.msBuilder = out.B], out.resp.kind)]
            /\ call' = [call EXCEPT ![w] = Idle]
            /\ last' = ReturnLog(w, req, attempt, c.msBuilder.ms, out)
            /\ UNCHANGED <<execution, history, started, remote, successor>>
       [] out.act = "stale" ->
            /\ ctx' = [ctx EXCEPT ![w] = clear]
            /\ NextAttempt(w, req, attempt,
                           Log(w, req, attempt, c.msBuilder.ms, "stale", FALSE, NoResponse))
            /\ UNCHANGED <<execution, history, started, remote, successor>>
       [] out.act = "panic" ->
            \* the handler is left by the panic with a nil error: the
            \* deferred release keeps the context that failDecision reloaded,
            \* unless the process ends
            /\ \E kept \in {clear, [msBuilder |-> out.B,
                                     updateCondition |-> execution.nextEventID]} :
                  ctx' = [ctx EXCEPT ![w] = kept]
            /\ call' = [call EXCEPT ![w] = Idle]
            /\ last' = ReturnLog(w, req, attempt, c.msBuilder.ms, out)
            /\ UNCHANGED <<execution, history, started, remote, successor>>

AddsBufferableEvent(req) ==
  req.op \in {"SignalWorkflowExecution", "SignalWithStartWorkflowExecution",
              "RequestCancelWorkflowExecution"}

\* the run r after req is handled on its stored state and persisted
Applied(r, req) ==
  CHOOSE x \in
    {LET out == Handle(Load(v.ms), req, v.ms)
     IN CHOOSE y \in
          {[ms |-> after, history |-> AppendHistoryEvents(v.history, U.events),
            started |-> Started(v.started \cup NewStarted(req, out), after)] :
             <<U, after>> \in {<<u, UpdateWorkflowExecution(v.ms, u)>> : u \in {Updates(out.B)}}} :
          TRUE
       : v \in {r}} : TRUE

\* a run whose first decision has scheduled an activity, with the activity
\* started and a decision scheduled for a signal
HeartbeatRun ==
  LET r0 == [ms |-> StartedRun.ms, history |-> StartedRun.history, started |-> {}]
      r1 == Applied(r0, Request("RecordDecisionTaskStarted", r0.ms.decSched, "r1", 0,
                                FALSE, <<>>, 0))
      r2 == Applied(r1, Request("RespondDecisionTaskCompleted", r0.ms.decSched, "", 0,
                                TRUE, <<ScheduleActivity>>, 0))
      a  == CHOOSE sid \in ActivityIDs(r2.ms.acts) : TRUE
      r3 == Applied(r2, Request("RecordActivityTaskStarted", a, "r1", 0, FALSE, <<>>, 0))
  IN Applied(r3, Request("SignalWorkflowExecution", 0, "", 0, FALSE, <<>>, 0))

\* the NextEventID from which no new request is accepted: MaxEventID for a
\* run that starts with its first decision scheduled
LastAcceptedEventID ==
  IF workload = HeartbeatWorkload
  THEN MaxEventID + HeartbeatRun.ms.nextEventID - StartedRun.ms.nextEventID
  ELSE MaxEventID

\* loadWorkflowExecution of a context without builder, at the start of an
\* iteration of a handler
LoadContext(w) ==
  /\ last = NoLog
  /\ ctx[w].msBuilder = Nil
  /\ call[w].pc = "idle" => execution.nextEventID <= LastAcceptedEventID
  /\ call[w].pc # "persist"
  /\ ctx' = [ctx EXCEPT ![w] = loadWorkflowExecution(ctx[w], execution)]
  /\ remote' = 0
  /\ UNCHANGED <<execution, history, call, started, last, workload, successor, startVars,
                 pollVars, transferVars, replicatorVars>>

\* the run as the cached context of w shows it
View(w) == IF ctx[w].msBuilder = Nil THEN execution ELSE ctx[w].msBuilder.ms

\* a handler that refuses its request before it asks the cache for the
\* context of the run
Reject(w, req) ==
  /\ last = NoLog
  /\ call[w].pc = "idle"
  /\ ~(getDomainUUID(req) /\ Deserialize(req))
  /\ last' = Log(w, req, 0, Nil, "none", TRUE, Response("BadRequest", <<>>))
  /\ UNCHANGED <<execution, history, ctx, call, started, remote, workload, successor,
                 startVars, pollVars, transferVars, replicatorVars>>

\* the first iteration of the handler of a request
Begin(w, req) ==
  /\ last = NoLog
  /\ call[w].pc = "idle"
  /\ ctx[w].msBuilder # Nil
  /\ execution.nextEventID <= LastAcceptedEventID
  /\ AddsBufferableEvent(req) => Len(execution.buffered) < MaxBuffered
  /\ ContinueAsNew \in {req.dec[i] : i \in 1..Len(req.dec)} => successor.histories < MaxSuccessorHistories
  /\ getDomainUUID(req) /\ Deserialize(req)
  /\ Iterate(w, req, 0, Handle(ctx[w].msBuilder, req, execution))
  /\ UNCHANGED <<workload, startVars, pollVars, transferVars, replicatorVars>>

\* a request served by another engine instance: its context is loaded for
\* the request and its update is not interleaved with anything
RemoteUpdate(req, out, U) ==
  /\ out.act = "persist"
  /\ execution' = UpdateWorkflowExecution(execution, U)
  /\ history' = AppendHistoryEvents(history, U.events)
  /\ started' = Started(started \cup NewStarted(req, out), execution')

Remote(req) ==
  /\ last = NoLog
  /\ \E w \in Writers : ctx[w].msBuilder # Nil
  /\ remote < MaxRemote
  /\ remote' = remote + 1
  /\ execution.nextEventID <= LastAcceptedEventID
  /\ AddsBufferableEvent(req) => Len(execution.buffered) < MaxBuffered
  /\ \E out \in {Handle(Load(execution), req, execution)} :
        RemoteUpdate(req, out, Updates(out.B))
  /\ UNCHANGED <<ctx, call, last, workload, successor, startVars, pollVars, transferVars, replicatorVars>>

\* a later iteration
Retry(w) ==
  /\ last = NoLog
  /\ call[w].pc = "run"
  /\ ctx[w].msBuilder # Nil
  /\ Iterate(w, call[w].req, call[w].attempt,
             Handle(ctx[w].msBuilder, call[w].req, execution))
  /\ UNCHANGED <<workload, startVars, pollVars, transferVars, replicatorVars>>

\* the update request of an iteration that failed the decision
Persist(w) ==
  /\ last = NoLog
  /\ call[w].pc = "persist"
  /\ Update(w, call[w].req, call[w].attempt, call[w].view, call[w].pend,
            Updates(call[w].pend.B), ctx[w].updateCondition)
  /\ UNCHANGED <<workload, startVars, pollVars, transferVars, replicatorVars>>

\* the end of the iteration of w logged in last: the handler returns or goes
\* on with its loop, before the stores are used again
Return(w) ==
  /\ last.w = w
  /\ last' = NoLog
  /\ UNCHANGED <<execution, history, ctx, call, started, remote, workload, successor,
                 startVars, pollVars, transferVars, replicatorVars>>

Next ==
  \/ \E w \in Writers : LoadContext(w)
  \/ \E w \in Writers : \E req \in Requests(View(w)) : Reject(w, req)
  \/ \E w \in Writers : \E req \in Requests(View(w)) : Begin(w, req)
  \/ \E req \in RemoteRequests : Remote(req)
  \/ \E w \in Writers : Retry(w)
  \/ \E w \in Writers : Persist(w)
  \/ \E w \in Writers : Return(w)

Spec == Init /\ [][Next]_vars

\* the initial states whose clients signal the run
SignalInit == Init /\ workload = SignalWorkload

\* the engine with HeartbeatRun in its stores
HeartbeatInit ==
  /\ execution = HeartbeatRun.ms
  /\ history = HeartbeatRun.history
  /\ ctx = [w \in Writers |-> clear]
  /\ call = [w \in Writers |-> Idle]
  /\ started = HeartbeatRun.started
  /\ workload = HeartbeatWorkload
  /\ remote = 0
  /\ successor = [histories |-> 0, runs |-> 0]
  /\ last = NoLog
  /\ StartInit
  /\ PollInit
  /\ TransferInit
  /\ ReplicatorInit

HeartbeatSpec == HeartbeatInit /\ [][Next]_vars

(***************************************************************************)
(* The steps of StartWorkflowExecution                                     *)
(***************************************************************************)
\* the end of a call: the run is created or the events are deleted
StartReturn(s, req, r, runID, outcome, rejected) ==
  /\ current' = IF r.created THEN RunRecord(runID, req.requestID) ELSE current
  /\ histories' = IF r.delete THEN histories \ {runID} ELSE histories
  /\ starter' = [starter EXCEPT ![s] = StartIdle]
  /\ startLast' = StartLog(s, req, r, runID, TRUE, current, outcome, rejected)

\* StartWorkflowExecution up to the first create: validation, the new RunID,
\* the first batch appended to the history store, the replication task
BeginStart(s, req) ==
  /\ starter[s].pc = "idle"
  /\ nextRunID <= MaxRuns
  /\ IF ~req.valid
     THEN /\ startLast' = StartLog(s, req, StartResult("BadRequest", 0, FALSE, FALSE),
                                   0, FALSE, Nil, "", FALSE)
          /\ UNCHANGED <<current, histories, starter, nextRunID>>
     ELSE /\ nextRunID' = nextRunID + 1
          /\ histories' = histories \cup {nextRunID}
          /\ IF req.domain = "unknown"
             THEN /\ startLast' = StartLog(s, req,
                                           StartResult("EntityNotExists", 0, FALSE, FALSE),
                                           nextRunID, TRUE, Nil, "", FALSE)
                  /\ UNCHANGED <<current, starter>>
             ELSE /\ starter' = [starter EXCEPT ![s] =
                                   [pc |-> "create", req |-> req, runID |-> nextRunID]]
                  /\ UNCHANGED <<current, startLast>>
  /\ UNCHANGED <<mainVars, pollVars, transferVars, replicatorVars>>

\* createWorkflow(isBrandNew = true) and workflowExistsErrHandler
CreateBrandNew(s, outcome) ==
  /\ starter[s].pc = "create"
  /\ \E req \in {starter[s].req} : \E runID \in {starter[s].runID} :
       \E r \in {createWorkflow(current, req, runID, TRUE, 0, outcome)} :
         IF r.kind # "AlreadyStarted"
         THEN StartReturn(s, req, r, runID, outcome,
                          outcome = "answer" /\ ~CreateWorkflowExecution(current, FALSE, 0))
         ELSE \E h \in {workflowExistsErrHandler(current, req.policy)} :
                IF h.kind # "" THEN StartReturn(s, req, h, runID, outcome, TRUE)
                ELSE /\ starter' = [starter EXCEPT ![s] =
                                      [pc |-> "retry", req |-> req, runID |-> runID,
                                       prevRunID |-> current.runID]]
                     /\ UNCHANGED <<current, histories, startLast>>
  /\ UNCHANGED <<nextRunID, mainVars, pollVars, transferVars, replicatorVars>>

\* createWorkflow(isBrandNew = false, prevRunID)
CreateContinueAsNew(s, outcome) ==
  /\ starter[s].pc = "retry"
  /\ \E r \in {createWorkflow(current, starter[s].req, starter[s].runID, FALSE,
                              starter[s].prevRunID, outcome)} :
       StartReturn(s, starter[s].req, r, starter[s].runID, outcome,
                   outcome = "answer"
                     /\ ~CreateWorkflowExecution(current, TRUE, starter[s].prevRunID))
  /\ UNCHANGED <<nextRunID, mainVars, pollVars, transferVars, replicatorVars>>

\* the current run is closed by its engine
CloseRun(status) ==
  /\ current # Nil
  /\ current.state = "Running"
  /\ current' = [current EXCEPT !.state = "Completed", !.closeStatus = status]
  /\ UNCHANGED <<histories, starter, nextRunID, startLast, mainVars, pollVars, transferVars, replicatorVars>>

StartNext ==
  \/ \E s \in Starters : \E req \in StartRequests : BeginStart(s, req)
  \/ \E s \in Starters : \E outcome \in CreateOutcomes : CreateBrandNew(s, outcome)
  \/ \E s \in Starters : \E outcome \in CreateOutcomes : CreateContinueAsNew(s, outcome)
  \/ \E status \in CloseStatuses : CloseRun(status)

StartSpec == SignalInit /\ [][StartNext]_vars

(***************************************************************************)
(* SignalWithStartWorkflowExecution for a WorkflowID without a running run *)
(***************************************************************************)
\* the first batch of the run that SignalWithStartWorkflowExecution starts
SignalWithStartRun ==
  newRun(CloseUpdateSession(AddDecisionTaskScheduledEvent(AddWorkflowExecutionSignaled(
    AddWorkflowExecutionStartedEvent(Load(newMutableStateBuilder))))))

\* SignalWithStartWorkflowExecution up to its create: the load of the
\* current run, which is absent (isBrandNew) or closed (prevRunID), the
\* new RunID and the first batch appended to the history store
BeginSignalWithStart(s, req) ==
  /\ starter[s].pc = "idle"
  /\ nextRunID <= MaxRuns
  /\ IF current = Nil THEN TRUE ELSE current.state # "Running"
  /\ nextRunID' = nextRunID + 1
  /\ histories' = histories \cup {nextRunID}
  /\ starter' = [starter EXCEPT ![s] =
                   [pc |-> "signalCreate", req |-> req, runID |-> nextRunID,
                    isBrandNew |-> current = Nil,
                    prevRunID |-> IF current = Nil THEN 0 ELSE current.runID]]
  /\ UNCHANGED <<current, startLast, mainVars, pollVars, transferVars, replicatorVars>>

\* its one call of createWorkflow(isBrandNew, prevRunID)
CreateSignalWithStart(s, outcome) ==
  /\ starter[s].pc = "signalCreate"
  /\ \E r \in {createWorkflow(current, starter[s].req, starter[s].runID,
                              starter[s].isBrandNew, starter[s].prevRunID, outcome)} :
       StartReturn(s, starter[s].req, r, starter[s].runID, outcome,
                   outcome = "answer"
                     /\ ~CreateWorkflowExecution(current, ~starter[s].isBrandNew,
                                                 starter[s].prevRunID))
  /\ UNCHANGED <<nextRunID, mainVars, pollVars, transferVars, replicatorVars>>

SignalWithStartRequests ==
  {SignalWithStartRequest(q, p) : q \in StartRequestIDs, p \in ReusePolicies}

SignalWithStartNext ==
  \/ StartNext
  \/ \E s \in Starters : \E req \in SignalWithStartRequests : BeginSignalWithStart(s, req)
  \/ \E s \in Starters : \E outcome \in CreateOutcomes : CreateSignalWithStart(s, outcome)

SignalWithStartSpec == SignalInit /\ [][SignalWithStartNext]_vars

(***************************************************************************)
(* The steps of GetMutableState, of the notifier and of the updates        *)
(***************************************************************************)
\* the return of GetMutableState, with the deferred UnwatchHistoryEvent
PollReturn(kind, via, response) ==
  /\ poller' = PollIdle
  /\ notifier' = [notifier EXCEPT !.subscribed = FALSE, !.channel = <<>>]
  /\ pollLast' = PollLog(kind, via, poller.expected, poller.first, response)

\* the first read: the caller long polls or gets the projection at once
GetMutableState(expectedNextEventID) ==
  /\ poller.pc = "idle"
  /\ IF longPoll(expectedNextEventID, run)
     THEN /\ poller' = [pc |-> "watch", expected |-> expectedNextEventID, first |-> run,
                        response |-> run]
          /\ UNCHANGED <<notifier, pollLast>>
     ELSE /\ pollLast' = PollLog("ok", "immediate", expectedNextEventID, run, run)
          /\ UNCHANGED <<notifier, poller>>
  /\ UNCHANGED <<run, mainVars, startVars, transferVars, replicatorVars>>

WatchHistoryEvent ==
  /\ poller.pc = "watch"
  /\ notifier' = [notifier EXCEPT !.subscribed = TRUE, !.channel = <<>>]
  /\ poller' = [poller EXCEPT !.pc = "reread"]
  /\ UNCHANGED <<run, pollLast, mainVars, startVars, transferVars, replicatorVars>>

\* the second read, after the subscription
Reread ==
  /\ poller.pc = "reread"
  /\ \E response \in {reread(poller.first, run)} :
       IF wakes(poller.expected, response) THEN PollReturn("ok", "reread", response)
       ELSE /\ poller' = [poller EXCEPT !.pc = "wait", !.response = response]
            /\ UNCHANGED <<notifier, pollLast>>
  /\ UNCHANGED <<run, mainVars, startVars, transferVars, replicatorVars>>

\* case event := <-channel
Receive ==
  /\ poller.pc = "wait"
  /\ notifier.channel # <<>>
  /\ \E event \in {Head(notifier.channel)} :
       IF wakes(poller.expected, event) THEN PollReturn("ok", "notification", event)
       ELSE /\ poller' = [poller EXCEPT !.response = event]
            /\ notifier' = [notifier EXCEPT !.channel = Tail(@)]
            /\ UNCHANGED pollLast
  /\ UNCHANGED <<run, mainVars, startVars, transferVars, replicatorVars>>

\* case <-timer.C
LongPollExpiration ==
  /\ poller.pc = "wait"
  /\ PollReturn("ok", "timer", poller.response)
  /\ UNCHANGED <<run, mainVars, startVars, transferVars, replicatorVars>>

\* case <-ctx.Done()
ContextDone ==
  /\ poller.pc = "wait"
  /\ PollReturn("Canceled", "done", Nil)
  /\ UNCHANGED <<run, mainVars, startVars, transferVars, replicatorVars>>

\* a successful update of the run by a handler, which ends with
\* NotifyNewHistoryEvent: newEvents events are appended, and the run may close
UpdateAndNotify(newEvents, closes) ==
  /\ run.isWorkflowRunning
  /\ run.nextEventID + newEvents <= MaxPollEventID
  /\ Len(notifier.events) < MaxNotifications
  /\ run' = Projection(run.nextEventID + newEvents, ~closes)
  /\ notifier' = [notifier EXCEPT !.events = Append(@, run')]
  /\ UNCHANGED <<poller, pollLast, mainVars, startVars, transferVars, replicatorVars>>

\* the notifier passes its oldest event to the subscriber, if there is one
Dispatch ==
  /\ notifier.events # <<>>
  /\ notifier' = [notifier EXCEPT
                    !.events = Tail(@),
                    !.channel = IF notifier.subscribed
                                THEN Offer(@, Head(notifier.events)) ELSE @]
  /\ UNCHANGED <<run, poller, pollLast, mainVars, startVars, transferVars, replicatorVars>>

PollerNext ==
  \/ \E expected \in ExpectedNextEventIDs : GetMutableState(expected)
  \/ WatchHistoryEvent
  \/ Reread
  \/ Receive

NoTimerNext ==
  \/ PollerNext
  \/ \E newEvents \in 0..2 : \E closes \in BOOLEAN : UpdateAndNotify(newEvents, closes)
  \/ Dispatch

PollNext ==
  \/ NoTimerNext
  \/ LongPollExpiration
  \/ ContextDone

PollSpec == SignalInit /\ [][PollNext]_vars

\* the long poll steps are taken, the notifier dispatches, and the timer of
\* the long poll expires
PollFairness ==
  /\ WF_vars(WatchHistoryEvent) /\ WF_vars(Reread) /\ WF_vars(Receive) /\ WF_vars(Dispatch)

FairPollSpec == PollSpec /\ PollFairness /\ WF_vars(LongPollExpiration)

\* long polls whose timer does not expire and whose caller does not cancel
NoTimerPollSpec == SignalInit /\ [][NoTimerNext]_vars /\ PollFairness

(***************************************************************************)
(* Properties.  They are stated on last, the iteration that has just       *)
(* ended, and on the stores.                                               *)
(***************************************************************************)
Persisted == last.result = "ok"
Conflicted == last.result \in {"conflict", "appendConflict"}

\* C1: every successful persist is applied to the state its writer loaded:
\* the stored state it replaces is the state it was computed from, so no
\* update of another writer is lost
C1_PersistsFormOneChain == Persisted => last.base = last.before

\* C2: an update loop makes at most conditionalRetryCount iterations, and
\* when the last of them ends in a conflict or a stale reload the handler
\* returns ErrMaxAttemptsExceeded without another iteration
C2_AtMostConditionalRetryCountAttempts ==
  /\ \A w \in Writers : call[w].pc # "idle" => call[w].attempt < conditionalRetryCount
  /\ last.attempt < conditionalRetryCount
  /\ (Conflicted \/ last.result = "stale") /\ last.attempt = conditionalRetryCount - 1
       => /\ last.returned
          /\ last.resp.kind = "ErrMaxAttemptsExceeded"
          /\ call[last.w].pc = "idle"
  /\ last.resp.kind = "ErrMaxAttemptsExceeded"
       => /\ Conflicted \/ last.result = "stale"
          /\ last.attempt = conditionalRetryCount - 1

\* a handler has given up after conditionalRetryCount conflicts
C2_Witness == last.resp.kind = "ErrMaxAttemptsExceeded" /\ Conflicted

\* C3: a successful update moves the stored NextEventID by the number of
\* events it appended, and these events carry the ids in between
C3_NextEventIDAdvancesByAppended ==
  Persisted =>
    /\ last.after.nextEventID = last.before.nextEventID + Len(last.events)
    /\ \A i \in 1..Len(last.events) :
         last.events[i].id = last.before.nextEventID + i - 1

\* an update that appended three events
C3_Witness == Persisted /\ Len(last.events) = 3

C5_StrictlyIncreases == Persisted => last.after.nextEventID > last.before.nextEventID

\* C5: a successful persist never decreases the stored NextEventID, and
\* increases it exactly when it appends history events
C5_IncreasesIffEventsAppended ==
  Persisted =>
    /\ last.after.nextEventID >= last.before.nextEventID
    /\ last.after.nextEventID > last.before.nextEventID <=> Len(last.events) > 0

\* a heartbeat was persisted without any event
C5_Witness ==
  /\ Persisted /\ last.req.op = "RecordActivityTaskHeartbeat"
  /\ last.events = <<>> /\ last.after.nextEventID = last.before.nextEventID

DecisionClosers == {"RespondDecisionTaskCompleted", "RespondDecisionTaskFailed"}
DecisionEndTypes == {"DecisionTaskCompleted", "DecisionTaskFailed"}

\* the update of the last step created a decision task
SchedulesDecision == CountType(last.transferTasks, "DecisionTask") > 0

\* C6: the decisions of the stored history follow one another; an update
\* by an operation that does not answer a decision (signal, cancel request,
\* activity response, SignalWithStart, ...) schedules no decision and keeps
\* the pending one (which only its start can renumber) when a decision is
\* pending in the store; an update that
\* schedules a decision over a pending one is the answer to that decision,
\* which a completion has found started; and no update schedules two
C6_AtMostOnePendingDecision ==
  /\ \A i, j \in 1..Len(history) :
        i < j /\ history[i] = "DecisionTaskScheduled" /\ history[j] = "DecisionTaskScheduled"
          => \E k \in (i + 1)..(j - 1) : history[k] \in DecisionEndTypes
  /\ Persisted /\ HasPendingDecisionTask(last.before) /\ last.req.op \notin DecisionClosers =>
        /\ ~SchedulesDecision
        /\ HasPendingDecisionTask(last.after)
        /\ last.req.op # "RecordDecisionTaskStarted"
             => last.after.decSched = last.before.decSched
  /\ Persisted /\ HasPendingDecisionTask(last.before) /\ SchedulesDecision =>
        /\ last.req.op \in DecisionClosers
        /\ GetPendingDecision(last.before, last.req.sid)
        /\ last.req.op = "RespondDecisionTaskCompleted" /\ ~last.failed
             => HasInFlightDecisionTask(last.before)
  /\ Persisted /\ SchedulesDecision =>
        /\ CountType(last.transferTasks, "DecisionTask") = 1
        /\ HasPendingDecisionTask(last.after) /\ ~HasInFlightDecisionTask(last.after)

\* a signal was appended behind a decision that is scheduled and not yet
\* started, and no decision was scheduled for it
C6_Witness ==
  /\ Persisted
  /\ last.req.op \in {"SignalWorkflowExecution", "SignalWithStartWorkflowExecution"}
  /\ HasPendingDecisionTask(last.before) /\ ~HasInFlightDecisionTask(last.before)
  /\ Len(last.events) = 1 /\ ~SchedulesDecision

StartOps == {"RecordDecisionTaskStarted", "RecordActivityTaskStarted"}

\* the task of req is started in ms
AlreadyStarted(ms, req) ==
  /\ isWorkflowExecutionRunning(ms)
  /\ IF req.op = "RecordDecisionTaskStarted"
     THEN GetPendingDecision(ms, req.sid) /\ HasInFlightDecisionTask(ms)
     ELSE IsActivityPending(ms, req.sid)
          /\ GetActivityInfo(ms, req.sid).started # emptyEventID

RecordedRequestID(ms, req) ==
  IF req.op = "RecordDecisionTaskStarted" THEN ms.decReq
  ELSE GetActivityInfo(ms, req.sid).req

\* the last iteration was a Record*TaskStarted that found its task started
OnStartedTask ==
  /\ last.req.op \in StartOps /\ last.view # Nil
  /\ AlreadyStarted(last.view, last.req)

\* C7 as stated: a Record*TaskStarted that finds its task started appends
\* no event; with the recorded request id it returns the positive response
\* of the first call, with another one EventAlreadyStarted; and the stored
\* mutable state is the same after it
C7_StartedTaskIsLeftAlone ==
  OnStartedTask =>
    /\ last.events = <<>>
    /\ RecordedRequestID(last.view, last.req) # last.req.rid =>
          /\ last.result = "none" /\ last.returned
          /\ last.resp.kind = "EventAlreadyStarted"
    /\ RecordedRequestID(last.view, last.req) = last.req.rid /\ last.returned
       /\ last.resp.kind # "ErrMaxAttemptsExceeded" =>
          /\ last.resp.kind = "ok"
          /\ \A s \in started :
                s.op = last.req.op /\ s.sid = last.req.sid /\ s.rid = last.req.rid
                  => s.body = last.resp.body
    /\ Persisted => last.after = last.before

\* the decision scheduled with event sid has its completed event in history h
CompletedInHistory(h, sid) ==
  /\ sid \in 1..Len(h) /\ h[sid] = "DecisionTaskScheduled"
  /\ \E k \in (sid + 1)..Len(h) :
       /\ h[k] = "DecisionTaskCompleted"
       /\ \A m \in (sid + 1)..(k - 1) : h[m] \notin {"DecisionTaskScheduled", "DecisionTaskFailed"}

\* the history store before the update of the last step
HistoryBefore ==
  IF Persisted THEN SubSeq(history, 1, Len(history) - Len(last.events)) ELSE history

\* the last iteration answered a decision that another answer has completed
LostTheRace ==
  /\ last.req.op = "RespondDecisionTaskCompleted"
  /\ CompletedInHistory(HistoryBefore, last.req.sid)

\* C8 as stated: a started decision gets one DecisionTaskCompleted, and the
\* answer that lost the race persists nothing and returns EntityNotExists
C8_OneCompletionPerDecision ==
  /\ \A i, j \in 1..Len(history) :
        i < j /\ history[i] = "DecisionTaskCompleted" /\ history[j] = "DecisionTaskCompleted"
          => \E k \in (i + 1)..(j - 1) : history[k] = "DecisionTaskStarted"
  /\ LostTheRace => ~Persisted
  /\ LostTheRace /\ last.returned => last.resp.kind = "EntityNotExists"

LastEventTypes == {last.events[i].type : i \in 1..Len(last.events)}

\* the update of a RespondDecisionTaskCompleted that failed the decision
FailedDecisionUpdate ==
  Persisted /\ last.req.op = "RespondDecisionTaskCompleted" /\ last.failed

\* C9 as stated: the update of a failed decision holds the
\* DecisionTaskFailed event and nothing else: no DecisionTaskCompleted, no
\* event and no pending info of the commands before the failing one; the
\* run stays Running and a new decision is scheduled
C9_FailedDecisionPersistsOnlyTheFailure ==
  FailedDecisionUpdate =>
    /\ Len(last.events) = 1 /\ last.events[1].type = "DecisionTaskFailed"
    /\ LastEventTypes \cap {"DecisionTaskCompleted", "ActivityTaskScheduled", "TimerStarted"} = {}
    /\ last.after.acts = last.before.acts /\ last.after.timers = last.before.timers
    /\ isWorkflowExecutionRunning(last.after)
    /\ SchedulesDecision
    /\ HasPendingDecisionTask(last.after) /\ ~HasInFlightDecisionTask(last.after)

CloseDecisionTypes ==
  {"CompleteWorkflowExecution", "FailWorkflowExecution", "CancelWorkflowExecution",
   "ContinueAsNewWorkflowExecution"}

\* Process_Decision_Loop reaches a close command of dec
CloseProcessed(dec) ==
  \E i \in 1..Len(dec) :
    dec[i].type \in CloseDecisionTypes /\ \A j \in 1..(i - 1) : dec[j].valid

\* the last iteration answered the started decision of its mutable state
\* with a close command while that state held buffered events
ClosesWithUnhandledEvents ==
  /\ last.req.op = "RespondDecisionTaskCompleted" /\ last.view # Nil
  /\ isWorkflowExecutionRunning(last.view)
  /\ GetPendingDecision(last.view, last.req.sid) /\ HasInFlightDecisionTask(last.view)
  /\ last.view.decAttempt = last.req.att
  /\ CloseProcessed(last.req.dec)
  /\ Len(last.view.buffered) > 0

\* C10: a close command processed on a mutable state with buffered events
\* fails the decision with cause UnhandledDecision; the update of that
\* iteration holds no closing event, does not close the run and schedules
\* a new decision
C10_UnhandledEventsKeepTheRunOpen ==
  ClosesWithUnhandledEvents =>
    /\ last.failed /\ last.cause = "UnhandledDecision"
    /\ Persisted =>
         /\ LastEventTypes \cap ClosingTypes = {}
         /\ isWorkflowExecutionRunning(last.before) => isWorkflowExecutionRunning(last.after)
         /\ SchedulesDecision
         /\ HasPendingDecisionTask(last.after) /\ ~HasInFlightDecisionTask(last.after)

\* a CompleteWorkflowExecution was refused for a buffered event, and the
\* run goes on with a new decision
C10_Witness ==
  /\ ClosesWithUnhandledEvents /\ Persisted
  /\ last.req.dec = <<CompleteWorkflow>>
  /\ last.cause = "UnhandledDecision"
  /\ isWorkflowExecutionRunning(last.after) /\ HasPendingDecisionTask(last.after)

(***************************************************************************)
(* C11  close tasks                                                        *)
(***************************************************************************)
ClosesRun == isWorkflowExecutionRunning(last.before) /\ ~isWorkflowExecutionRunning(last.after)
CloseTasks == CountType(last.transferTasks, "CloseExecution")
CleanupTasks == CountType(last.timerTasks, "DeleteHistoryEvent")

\* C11: a successful update that closes the run (a terminal decision,
\* continue-as-new, TerminateWorkflowExecution) persists exactly one
\* CloseExecution transfer task and exactly one history cleanup timer task,
\* and an update that leaves the run running persists neither
C11_CloseTasksIffRunCloses ==
  Persisted =>
    /\ ClosesRun => CloseTasks = 1 /\ CleanupTasks = 1
    /\ isWorkflowExecutionRunning(last.after) => CloseTasks = 0 /\ CleanupTasks = 0

C11_Witness ==
  /\ Persisted /\ ClosesRun /\ CloseTasks = 1 /\ CleanupTasks = 1
  /\ last.req.op = "RespondDecisionTaskCompleted"
  /\ "WorkflowExecutionContinuedAsNew" \in LastEventTypes

(***************************************************************************)
(* C12  a closed run is immutable                                          *)
(***************************************************************************)
\* C12: once the stored run is Completed no request persists an update:
\* the stored history and mutable state stay as they are
C12_ClosedRunIsImmutable ==
  Persisted => isWorkflowExecutionRunning(last.before)

(***************************************************************************)
(* C13  WorkflowID reuse policy                                            *)
(***************************************************************************)
StartReturned == startLast.kind # "none"
HasPriorRun == startLast.prior # Nil
PolicyPermits(policy, closeStatus) ==
  \/ policy = "AllowDuplicate"
  \/ policy = "AllowDuplicateFailedOnly" /\ closeStatus \in FailedWorkflowCloseState
ReusePermitted ==
  /\ startLast.prior.state # "Running"
  /\ PolicyPermits(startLast.req.policy, startLast.prior.closeStatus)
RejectedAsAlreadyStarted ==
  /\ startLast.kind \in {"WorkflowExecutionAlreadyStarted", "AlreadyStarted"}
  /\ startLast.runID = startLast.prior.runID
  /\ ~startLast.created
SameRequestId == startLast.prior.requestID = startLast.req.requestID
StoreAnswered == startLast.outcome = "answer"

C14_SameRequestIdReturnsTheExistingRun ==
  startLast.rejected /\ SameRequestId =>
    /\ startLast.kind = "ok"
    /\ startLast.runID = startLast.prior.runID
    /\ ~startLast.created /\ startLast.after = startLast.prior

\* two concurrent starts with one RequestId: the second returns the run of
\* the first
C14_Witness ==
  /\ startLast.rejected /\ SameRequestId
  /\ startLast.kind = "ok" /\ startLast.runID = 1 /\ startLast.newRunID = 2
  /\ startLast.prior.state = "Running"

(***************************************************************************)
(* C15  orphan history                                                     *)
(***************************************************************************)
StartFailed == StartReturned /\ startLast.kind # "ok"

\* C15: a StartWorkflowExecution that fails after it appended the first
\* batch of the new run leaves no history for the new RunID
C15_FailedStartDeletesItsHistory ==
  StartFailed /\ startLast.appended => startLast.newRunID \notin histories

(***************************************************************************)
(* C16  when GetMutableState long polls                                    *)
(***************************************************************************)
PollReturned == pollLast.kind # "none"
LongPolled == PollReturned /\ pollLast.via # "immediate"

Satisfies(expected, projection) ==
  projection.nextEventID > expected \/ ~projection.isWorkflowRunning
Polling == poller.pc # "idle"
Blocked == poller.pc = "wait"

\* C17: the long poll misses no wakeup.  With a timer that does not expire
\* and a caller that does not cancel, a poll returns once an update has
\* made NextEventID exceed ExpectedNextEventID or has closed the run, and
\* what it returns, from its second read or from a notification, shows it
C17_NoMissedWakeup ==
  (Polling /\ Satisfies(poller.expected, run))
    ~> (/\ ~Polling
        /\ pollLast.via \in {"reread", "notification"}
        /\ pollLast.kind = "ok"
        /\ Satisfies(pollLast.expected, pollLast.response))

\* the update came between the two reads of the poll
C17_Witness ==
  /\ pollLast.via = "reread"
  /\ ~Satisfies(pollLast.expected, pollLast.first)
  /\ Satisfies(pollLast.expected, pollLast.response)
  /\ pollLast.response = run

WaitSafety ==
  /\ Blocked => ~Satisfies(poller.expected, poller.response)
  /\ pollLast.via \in {"reread", "notification"} =>
       pollLast.kind = "ok" /\ Satisfies(pollLast.expected, pollLast.response)
  /\ pollLast.via = "timer" =>
       /\ pollLast.kind = "ok" /\ pollLast.response # Nil
       /\ ~Satisfies(pollLast.expected, pollLast.response)
  /\ pollLast.via = "done" => pollLast.kind = "Canceled" /\ pollLast.response = Nil

\* C18: a blocked GetMutableState terminates.  It returns on the first
\* notification with nextEventID > expected or isRunning = false, and no
\* other notification ends the wait; when the timer expires it returns the
\* latest snapshot without error; when the caller cancels it returns the
\* cancellation error
C18_BlockedPollTerminates ==
  /\ []WaitSafety
  /\ Blocked ~> ~Polling

\* the timer ended a wait in which a notification had arrived that did not
\* satisfy the poll
C18_Witness ==
  /\ pollLast.via = "timer"
  /\ pollLast.response # pollLast.first
  /\ ~Satisfies(pollLast.expected, pollLast.response)

(***************************************************************************)
(* C19  notifications follow the persist                                   *)
(***************************************************************************)
\* C19: the transfer queue processor, the timer queue processor and the
\* history event notifier are notified only by an iteration whose persist
\* succeeded: an iteration that ends in a conflict or in an error triggers
\* no notification
C19_NotifiedOnlyAfterPersist ==
  /\ last.notifyHistory \/ last.notifyTransfer => Persisted
  /\ last.notifyTimers <= (IF Persisted THEN 1 ELSE 0)

(***************************************************************************)
(* Requests that fail input validation                                     *)
(***************************************************************************)
FailsValidation == last.req.invalid # ""

\* the request was refused as a bad request, no context of the run was
\* acquired for it and nothing was sent to the stores
RefusedUntouched ==
  /\ last.returned
  /\ last.resp.kind = "BadRequest"
  /\ last.view = Nil
  /\ last.result = "none"

\* C20 as stated: every request that fails input validation (task token,
\* DomainUUID, start request) is refused as a bad request without a
\* workflow context and without a read or write of the stores
C20_InvalidRequestTouchesNothing == FailsValidation => RefusedUntouched

\* C20: a request with an undeserializable task token or without DomainUUID
\* is refused as a bad request without a workflow context and without a read
\* or write of the stores; the start request of
\* SignalWithStartWorkflowExecution is validated only after the context of
\* the run was acquired and loaded and the run was found not running, and is
\* then refused as a bad request without a write
C20_InvalidRequestIsRefusedWhereValidated ==
  /\ last.req.invalid \in {"token", "domainUUID"} => RefusedUntouched
  /\ (last.req.invalid = "startRequest" /\ ~isWorkflowExecutionRunning(last.view)) =>
       /\ last.returned
       /\ last.resp.kind = "BadRequest"
       /\ last.result = "none"

C20_Witness ==
  /\ last.req.invalid = "token"
  /\ last.req.op = "RespondDecisionTaskCompleted"
  /\ RefusedUntouched
  /\ execution.nextEventID > 3

(***************************************************************************)
(* Errors of the update                                                    *)
(***************************************************************************)
\* C21: no handler returns ErrConflict or ErrStaleState: an iteration that
\* ends in one of them is followed by the next iteration or, as the last
\* one, by ErrMaxAttemptsExceeded; any other error of the stores is returned
\* as it is by the iteration that met it
C21_ConflictAndStaleStayInTheLoop ==
  /\ last.returned => last.resp.kind \notin {"ErrConflict", "ErrStaleState"}
  /\ (Conflicted \/ last.result = "stale") /\ last.returned =>
        /\ last.resp.kind = "ErrMaxAttemptsExceeded"
        /\ last.attempt = conditionalRetryCount - 1
  /\ (Conflicted \/ last.result = "stale") /\ ~last.returned =>
        /\ call[last.w].pc = "run"
        /\ call[last.w].attempt = last.attempt + 1
  /\ last.result = "error" =>
        /\ last.returned
        /\ last.resp.kind = "PersistenceError"
        /\ call[last.w].pc = "idle"
        /\ last.after = last.before

C21_Witness ==
  /\ last.result = "error"
  /\ last.attempt = 1
  /\ last.returned
  /\ last.resp.kind = "PersistenceError"

(***************************************************************************)
(* ContinueAsNew                                                           *)
(***************************************************************************)
ContinuedAsNew == execution.closeStatus = "ContinuedAsNew"

\* C22 as stated: the run is closed as continued and its successor exists
\* with its first batch, or the run is not continued and the stores hold
\* neither state nor history of a successor
C22_ContinueAsNewIsAtomic ==
  IF ContinuedAsNew
  THEN successor.runs = 1 /\ successor.histories = 1
  ELSE successor.runs = 0 /\ successor.histories = 0

(***************************************************************************)
(* The cached context between handlers                                     *)
(***************************************************************************)
\* the errors a handler returns (a panic is no return)
ReturnedErrors == ErrorKinds \ {"Panic"}

\* the handler of the last step had acquired the context of the run and
\* returned an error
ReturnedError ==
  last.returned /\ last.view # Nil /\ last.resp.kind \in ReturnedErrors

\* after the step the context of w is empty, or holds what a load of the
\* stored run gives, or holds the mutable state that the step has persisted,
\* with no update session open on it
CleanContext(w) ==
  \/ ctx'[w].msBuilder = Nil
  \/ ctx'[w].msBuilder = Load(execution)
  \/ /\ last'.w = w /\ last'.result = "ok"
     /\ ctx'[w].msBuilder = Load(ctx'[w].msBuilder.ms)

Start(enabled) ==
  /\ ~isStarted
  /\ isStarted' = TRUE
  /\ isGlobalDomainEnabled' = enabled
  /\ transferLast' = NoTransferLog
  /\ UNCHANGED <<replica, queue, maxReadLevel, ackLevels, shardAck, visibility,
                 mainVars, startVars, pollVars, replicatorVars>>

\* the task that the update of the run writes with its events
NewTask(type, scheduleID, domain) ==
  TransferTaskInfo(maxReadLevel + 1, type, scheduleID, domain)

\* the replicator applies an event of the active cluster that initiates an
\* activity, a decision, a cancellation, a signal or a child, together with
\* the transfer task of the event
Replicate(kind) ==
  /\ isStarted /\ replica.running
  /\ replica.nextEventID <= MaxReplicaEventID
  /\ maxReadLevel < MaxTransferTasks
  /\ replica' = replicateWorkflowExecution(
                   [replica EXCEPT
                      !.nextEventID = @ + 1,
                      !.infos = @ \cup {PendingInfo(replica.nextEventID, kind, FALSE)}])
  /\ queue' = queue \cup {NewTask(kind, replica.nextEventID, "s1")}
  /\ maxReadLevel' = maxReadLevel + 1
  /\ transferLast' = NoTransferLog
  /\ UNCHANGED <<isStarted, isGlobalDomainEnabled, ackLevels, shardAck, visibility,
                 mainVars, startVars, pollVars, replicatorVars>>

\* the replicator applies the event by which the active cluster started the
\* activity, the decision or the child
ReplicateStarted(i) ==
  /\ isStarted /\ replica.running
  /\ replica.nextEventID <= MaxReplicaEventID
  /\ i \in replica.infos /\ ~i.started
  /\ i.kind \in {"ActivityTask", "DecisionTask", "StartChildExecution"}
  /\ replica' = replicateWorkflowExecution(
                   [replica EXCEPT
                      !.nextEventID = @ + 1,
                      !.infos = (@ \ {i}) \cup {PendingInfo(i.id, i.kind, TRUE)}])
  /\ transferLast' = NoTransferLog
  /\ UNCHANGED <<isStarted, isGlobalDomainEnabled, queue, maxReadLevel, ackLevels,
                 shardAck, visibility, mainVars, startVars, pollVars, replicatorVars>>

\* the replicator applies the event that resolves what an info is pending
\* for: the info is deleted
ReplicateResolved(i) ==
  /\ isStarted /\ replica.running
  /\ replica.nextEventID <= MaxReplicaEventID
  /\ i \in replica.infos
  /\ i.kind \in {"CancelExecution", "SignalExecution"} \/ i.started
  /\ replica' = replicateWorkflowExecution(
                   [replica EXCEPT !.nextEventID = @ + 1, !.infos = @ \ {i}])
  /\ transferLast' = NoTransferLog
  /\ UNCHANGED <<isStarted, isGlobalDomainEnabled, queue, maxReadLevel, ackLevels,
                 shardAck, visibility, mainVars, startVars, pollVars, replicatorVars>>

\* the replicator applies the event that closes the run, together with its
\* CloseExecution task
ReplicateClosed ==
  /\ isStarted /\ replica.running
  /\ maxReadLevel < MaxTransferTasks
  /\ replica' = replicateWorkflowExecution(
                   [replica EXCEPT !.nextEventID = @ + 1, !.running = FALSE])
  /\ queue' = queue \cup {NewTask("CloseExecution", replica.nextEventID, "s1")}
  /\ maxReadLevel' = maxReadLevel + 1
  /\ transferLast' = NoTransferLog
  /\ UNCHANGED <<isStarted, isGlobalDomainEnabled, ackLevels, shardAck, visibility,
                 mainVars, startVars, pollVars, replicatorVars>>

\* the retention of the domain deletes the closed run
ReplicaDeleted ==
  /\ isStarted /\ ~replica.running /\ replica.load = "nil"
  /\ replica' = [replica EXCEPT !.load = "EntityNotExists"]
  /\ transferLast' = NoTransferLog
  /\ UNCHANGED <<isStarted, isGlobalDomainEnabled, queue, maxReadLevel, ackLevels,
                 shardAck, visibility, mainVars, startVars, pollVars, replicatorVars>>

\* the history cache evicts the context of the run
CacheEvicted ==
  /\ isStarted /\ replica.cache.loaded
  /\ replica' = [replica EXCEPT !.cache = clearedContext]
  /\ transferLast' = NoTransferLog
  /\ UNCHANGED <<isStarted, isGlobalDomainEnabled, queue, maxReadLevel, ackLevels,
                 shardAck, visibility, mainVars, startVars, pollVars, replicatorVars>>

\* a run of a local domain writes a transfer task
LocalTask(type, domain) ==
  /\ isStarted
  /\ maxReadLevel < MaxTransferTasks
  /\ queue' = queue \cup {NewTask(type, emptyEventID, domain)}
  /\ maxReadLevel' = maxReadLevel + 1
  /\ transferLast' = NoTransferLog
  /\ UNCHANGED <<isStarted, isGlobalDomainEnabled, replica, ackLevels, shardAck,
                 visibility, mainVars, startVars, pollVars, replicatorVars>>

\* the task a processor takes next: the first one above its ack level
NextTask(p) == GetTransferTasks(queue, ackLevels[p], maxReadLevel, 1)

\* what the load of the run can give: the run, or the error of a store that
\* fails
LoadResults == {replica.load, "InternalServiceError"}

\* the standby processor of cluster p takes its next task: the queueAckMgr
\* moves the ack level over the task once process has completed it
StandbyProcess(p, load) ==
  /\ isStarted /\ isGlobalDomainEnabled
  /\ NextTask(p) # <<>>
  /\ LET task == NextTask(p)[1]
         ms == loadedForTask(replica, load, task)
         result == process(p, ms, task)
     IN /\ ackLevels' = IF result.completed
                        THEN [ackLevels EXCEPT ![p] = task.taskID] ELSE ackLevels
        /\ visibility' = visibility \cup
             (IF "visibility.RecordWorkflowExecutionClosed" \in result.calls
              THEN {task.taskID} ELSE {})
        /\ replica' = [replica EXCEPT
                         !.cache = IF transferTaskFilter(p, task)
                                   THEN releasedContext(ms, result.err) ELSE @,
                         !.retried = IF result.err = "ErrTaskRetry"
                                     THEN @ \cup {<<p, task.taskID>>}
                                     ELSE IF result.completed
                                     THEN @ \ {<<p, task.taskID>>} ELSE @]
        /\ transferLast' = [TransferLog("standby", p, task, ms, result, {}, Nil, 0)
                              EXCEPT !.load = ms.load,
                                     !.stored = loadedContext(replica),
                                     !.cached = /\ replica.cache.loaded
                                                /\ task.scheduleID < replica.cache.nextEventID,
                                     !.retried = <<p, task.taskID>> \in replica.retried]
  /\ UNCHANGED <<isStarted, isGlobalDomainEnabled, queue, maxReadLevel,
                 shardAck, mainVars, startVars, pollVars, replicatorVars>>

\* the active processor takes its next task and completes it
ActiveProcess ==
  /\ isStarted
  /\ NextTask("active") # <<>>
  /\ LET task == NextTask("active")[1]
     IN /\ ackLevels' = [ackLevels EXCEPT !["active"] = task.taskID]
        /\ transferLast' = NoTransferLog
  /\ UNCHANGED <<isStarted, isGlobalDomainEnabled, replica, queue, maxReadLevel,
                 shardAck, visibility, mainVars, startVars, pollVars, replicatorVars>>

\* one round of completeTransferLoop; failing: the ids of the tasks for which
\* CompleteTransferTask returns an error, which is logged
completeTransfer(failing) ==
  /\ isStarted
  /\ LET lowerAckLevel == shardAck
         upper == upperAckLevel(ackLevels, isGlobalDomainEnabled)
         called == IF lowerAckLevel >= upper THEN {}
                   ELSE LoadCompleteLoop(queue, lowerAckLevel, upper)
         removed == {t \in called : t.taskID \notin failing}
     IN /\ failing \subseteq {t.taskID : t \in called}
        /\ queue' = queue \ removed
        /\ shardAck' = IF lowerAckLevel >= upper THEN shardAck ELSE upper
        /\ transferLast' = [TransferLog("complete", "", Nil, Nil, Nil, removed,
                                        ackLevels, shardAck)
                              EXCEPT !.failed = failing]
  /\ UNCHANGED <<isStarted, isGlobalDomainEnabled, replica, maxReadLevel, ackLevels,
                 visibility, mainVars, startVars, pollVars, replicatorVars>>

TransferNext ==
  \/ \E enabled \in BOOLEAN : Start(enabled)
  \/ \E kind \in VerifiedTaskTypes : Replicate(kind)
  \/ \E i \in replica.infos : ReplicateStarted(i)
  \/ \E i \in replica.infos : ReplicateResolved(i)
  \/ ReplicateClosed
  \/ LocalTask("DecisionTask", "local")
  \/ ReplicaDeleted
  \/ CacheEvicted
  \/ \E p \in Standbys : \E load \in LoadResults : StandbyProcess(p, load)
  \/ ActiveProcess
  \/ \E failing \in SUBSET (1..MaxTransferTasks) : completeTransfer(failing)

TransferSpec == SignalInit /\ [][TransferNext]_vars

\* an update of the run appends a batch of n events to its history
AppendHistoryBatch(n) ==
  /\ Len(historyBatches) < MaxHistoryBatches
  /\ historyBatches' = Append(historyBatches,
                              SerializedHistoryEventBatch(HistoryNextEventID(historyBatches), n))
  /\ replicatorLast' = NoReplicatorLog
  /\ UNCHANGED <<replicationTasks, mainVars, startVars, pollVars, transferVars>>

\* a replication task is written for the events from the batch i on
CreateReplicationTask(i) ==
  /\ Cardinality(replicationTasks) < MaxReplicationTasks
  /\ replicationTasks' = replicationTasks \cup
       {ReplicationTaskInfo(historyBatches[i].first, HistoryNextEventID(historyBatches))}
  /\ replicatorLast' = NoReplicatorLog
  /\ UNCHANGED <<historyBatches, mainVars, startVars, pollVars, transferVars>>

\* process of a history replication task: the history of the task is read
\* and published, and the task is completed unless Publish fails
processHistoryReplicationTask(task, published) ==
  /\ task \in replicationTasks
  /\ LET events == getHistory(historyBatches, task.firstEventID, task.nextEventID)
     IN replicatorLast' = ReplicatorLog(IF published THEN "publish" ELSE "error",
                                        task, events)
  /\ replicationTasks' = IF published THEN replicationTasks \ {task} ELSE replicationTasks
  /\ UNCHANGED <<historyBatches, mainVars, startVars, pollVars, transferVars>>

ReplicatorNext ==
  \/ \E n \in 1..MaxBatchEvents : AppendHistoryBatch(n)
  \/ \E i \in 1..Len(historyBatches) : CreateReplicationTask(i)
  \/ \E task \in replicationTasks : \E published \in BOOLEAN :
       processHistoryReplicationTask(task, published)

ReplicatorSpec == SignalInit /\ [][ReplicatorNext]_vars

\* the standby side of a global domain: the replicator, the history cache
\* and the standby processors
StandbyNext ==
  \/ Start(TRUE)
  \/ \E kind \in VerifiedTaskTypes : Replicate(kind)
  \/ \E i \in replica.infos : ReplicateStarted(i)
  \/ \E i \in replica.infos : ReplicateResolved(i)
  \/ ReplicateClosed
  \/ CacheEvicted
  \/ \E p \in Standbys : \E load \in LoadResults : StandbyProcess(p, load)

\* the worker of a standby processor takes the task again after ErrTaskRetry,
\* and the store does not fail for ever
FairStandbySpec ==
  /\ SignalInit /\ [][StandbyNext]_vars
  /\ \A p \in Standbys : WF_vars(StandbyProcess(p, replica.load))


(***************************************************************************)
(* The standby transfer processor                                          *)
(***************************************************************************)
\* the last step was the standby processor of the cluster of the task
\* processing the task
StandbyProcessed ==
  /\ transferLast.kind = "standby"
  /\ transferTaskFilter(transferLast.p, transferLast.task)

\* C24: the standby transfer processor calls no matching service and no peer
\* history service and notifies no parent, whatever the type of the task: the
\* only call it makes is the record of the closed execution in the visibility
\* store, for a CloseExecution task, and the mutable state of the run is
\* after the task what it was before
C24_StandbyOnlyRecordsTheClose ==
  transferLast.kind = "standby" =>
    /\ transferLast.result.calls \subseteq {"visibility.RecordWorkflowExecutionClosed"}
    /\ transferLast.result.calls # {} => transferLast.task.type = "CloseExecution"
    /\ loadedContext(replica) = transferLast.stored

\* the standby processor has recorded the close of the replicated run
C24_Witness ==
  /\ StandbyProcessed
  /\ transferLast.task.type = "CloseExecution"
  /\ transferLast.result.calls = {"visibility.RecordWorkflowExecutionClosed"}
  /\ transferLast.task.taskID \in visibility

\* the replicated mutable state has not reached the shape that the active
\* side leaves once the task has had its effect
PostEffectPending(ms, task) ==
  \E i \in ms.infos :
    /\ i.kind = task.type /\ i.id = task.scheduleID
    /\ task.type \in {"CancelExecution", "SignalExecution"} \/ ~i.started

\* C25: for a task of its cluster other than CloseExecution the standby
\* processor returns ErrTaskRetry exactly when the run is running and its
\* replicated mutable state has not reached the post-effect shape, and returns
\* success otherwise, also when the run is closed
C25_RetryExactlyWhileNotReplayed ==
  StandbyProcessed /\ transferLast.task.type \in VerifiedTaskTypes
    /\ transferLast.load = "nil" =>
    transferLast.result.err =
      IF transferLast.ms.running /\ PostEffectPending(transferLast.ms, transferLast.task)
      THEN "ErrTaskRetry" ELSE "nil"

\* the standby processor has met an activity that the replica has not seen
\* started
C25_Witness ==
  /\ StandbyProcessed
  /\ transferLast.task.type = "ActivityTask"
  /\ transferLast.ms.running
  /\ transferLast.result.err = "ErrTaskRetry"
  /\ ackLevels[transferLast.p] < transferLast.task.taskID

\* the lowest ack level of the processors ps
MinAckLevel(levels, ps) == CHOOSE l \in {levels[p] : p \in ps} : \A p \in ps : l <= levels[p]

\* a round of the completion loop over the processors ps: it removes no task
\* above the lowest of their ack levels, it moves the ack level of the shard
\* to that level and never back, and of the tasks between the two ack levels
\* of the shard only those are left whose deletion failed
CompletesUpTo(ps) ==
  transferLast.kind = "complete" =>
    LET upper == MinAckLevel(transferLast.levels, ps)
    IN /\ \A t \in transferLast.removed : t.taskID <= upper
       /\ shardAck = IF transferLast.before >= upper THEN transferLast.before ELSE upper
       /\ shardAck >= transferLast.before
       /\ \A t \in queue :
            transferLast.before < t.taskID /\ t.taskID <= shardAck
              => t.taskID \in transferLast.failed

\* C26 as stated: the completion loop deletes up to, and moves the ack level
\* of the shard to, the lowest of the ack levels of the active processor and
\* of every standby processor
C26_CompletesUpToEveryAckLevel == CompletesUpTo(TransferProcessors)

\* the processors that Start has started
StartedProcessors == IF isGlobalDomainEnabled THEN TransferProcessors ELSE {"active"}

\* C26: the completion loop deletes up to, and moves the ack level of the
\* shard to, the lowest of the ack levels of the active processor and, when
\* global domains are enabled, of every standby processor; the ack level of
\* the shard never decreases
C26_CompletesUpToStartedAckLevels == CompletesUpTo(StartedProcessors)

\* the completion loop has removed tasks and kept one that the active
\* processor has completed and a standby processor has not
C26_Witness ==
  /\ transferLast.kind = "complete"
  /\ isGlobalDomainEnabled
  /\ transferLast.removed # {}
  /\ \E t \in queue : t.taskID <= ackLevels["active"]

(***************************************************************************)
(* RecordActivityTaskHeartbeat                                             *)
(***************************************************************************)
HeartbeatPersisted == Persisted /\ last.req.op = "RecordActivityTaskHeartbeat"

\* C27: a RecordActivityTaskHeartbeat that succeeds appends no history event,
\* schedules no decision and writes no task, leaves NextEventID as it was,
\* changes nothing of the stored mutable state but the heartbeat details of
\* its activity, and answers CancelRequested exactly when the cancellation of
\* that activity has been requested
C27_HeartbeatOnlyRecordsProgress ==
  HeartbeatPersisted =>
    LET ai == GetActivityInfo(last.before, last.req.sid)
    IN /\ IsActivityPending(last.before, last.req.sid)
       /\ last.events = <<>>
       /\ last.transferTasks = <<>> /\ last.timerTasks = <<>>
       /\ last.after.nextEventID = last.before.nextEventID
       /\ last.after.decSched = last.before.decSched
       /\ last.after =
            [last.before EXCEPT !.acts = (@ \ {ai}) \cup {[ai EXCEPT !.hb = last.req.hb]}]
       /\ last.resp = Response("ok", <<ai.cancelRequested>>)

(***************************************************************************)
(* SignalWorkflowExecution with a RequestID that the run has recorded      *)
(***************************************************************************)
\* the stores have taken the update of a signal whose RequestID the run had
\* recorded
DuplicateSignal ==
  /\ Persisted
  /\ last.req.op = "SignalWorkflowExecution"
  /\ last.req.rid # "" /\ last.req.rid \in last.view.sigReq
  /\ isWorkflowExecutionRunning(last.view)

\* C28: a SignalWorkflowExecution whose RequestID is already among the
\* signalRequestedIDs of the run succeeds and does nothing: it appends no
\* event, schedules no decision and leaves NextEventID as it was
C28_DuplicateSignalIsNoOp ==
  DuplicateSignal =>
    /\ last.resp.kind = "ok"
    /\ last.events = <<>>
    /\ last.transferTasks = <<>>
    /\ last.after.nextEventID = last.before.nextEventID

(***************************************************************************)
(* The decision that is scheduled after a failed one                       *)
(***************************************************************************)
\* the update of a handler that failed the started decision of the state it
\* had loaded has been stored
DecisionFailed ==
  /\ Persisted
  /\ last.failed \/ last.req.op = "RespondDecisionTaskFailed"
  /\ last.base.decStarted # emptyEventID
  /\ CanCloseDecision(last.base, last.req.sid, last.base.decStarted)

TypesOf(events) == {events[i].type : i \in 1..Len(events)}

\* C29: the decision that is scheduled when a decision has failed is
\* transient: its attempt is that of the failed decision plus one, its
\* schedule id is the NextEventID of the run, and no DecisionTaskScheduled
\* and no DecisionTaskStarted event goes to the history for it, neither when
\* it is scheduled nor when it is started (the failed decision is the
\* started decision of the state the handler had loaded)
C29_RescheduledDecisionIsTransient ==
  /\ DecisionFailed =>
       /\ HasPendingDecisionTask(last.after)
       /\ last.after.decAttempt = last.base.decAttempt + 1
       /\ last.after.decSched = last.after.nextEventID
       /\ last.after.decStarted = emptyEventID
       /\ TypesOf(last.events) \cap {"DecisionTaskScheduled", "DecisionTaskStarted"} = {}
  /\ /\ Persisted /\ last.req.op = "RecordDecisionTaskStarted"
     /\ last.base.decAttempt > 0 /\ last.base.decSched = last.base.nextEventID
     /\ ~last.already
     => /\ last.events = <<>>
        /\ last.after.nextEventID = last.base.nextEventID
        /\ last.after.decAttempt = last.base.decAttempt
        /\ last.resp.body[3] = last.base.decAttempt

\* a decision with bad attributes has failed and its retry is scheduled
C29_Witness ==
  /\ DecisionFailed /\ last.failed
  /\ last.after.decAttempt = 1
  /\ last.after.decSched = last.after.nextEventID

(***************************************************************************)
(* The start of SignalWithStartWorkflowExecution                           *)
(***************************************************************************)
SignalWithStartReturned == startLast.kind # "none" /\ startLast.req.signal

\* C30: SignalWithStartWorkflowExecution on a WorkflowID whose run is closed
\* or absent starts a run whose first batch is the started event, the signal
\* and a scheduled decision, and it creates the run as StartWorkflowExecution
\* does: a create that the store rejects for an existing run returns that run
\* when the RequestIDs are equal, and otherwise the reuse policy decides,
\* with the create retried against the prior run when the policy permits it
C30_SignalWithStartCreatesAsStartDoes ==
  /\ SignalWithStartRun.history =
       <<"WorkflowExecutionStarted", "WorkflowExecutionSignaled", "DecisionTaskScheduled">>
  /\ HasPendingDecisionTask(SignalWithStartRun.ms)
  /\ SignalWithStartReturned /\ HasPriorRun /\ StoreAnswered =>
       /\ startLast.rejected /\ SameRequestId =>
            startLast.kind = "ok" /\ startLast.runID = startLast.prior.runID
              /\ ~startLast.created
       /\ ~SameRequestId => (startLast.created <=> ReusePermitted)
       /\ ~SameRequestId /\ ~ReusePermitted => RejectedAsAlreadyStarted

(***************************************************************************)
(* The stale-cache check of the handlers of a task                         *)
(***************************************************************************)
DecisionTaskOps == {"RecordDecisionTaskStarted", "RespondDecisionTaskCompleted"}
ActivityResponseOps ==
  {"RespondActivityTaskCompleted", "RespondActivityTaskFailed", "RespondActivityTaskCanceled"}
ActivityTaskOps ==
  ActivityResponseOps \cup {"RecordActivityTaskStarted", "RecordActivityTaskHeartbeat"}
NotFoundKinds == {"EntityNotExists", "ErrActivityTaskNotFound"}

\* the task of req is pending in ms
TaskPending(ms, req) ==
  IF req.op \in DecisionTaskOps THEN GetPendingDecision(ms, req.sid)
  ELSE IsActivityPending(ms, req.sid)

\* the last iteration of a handler of a task started from a cached state in
\* which the task is not pending and its scheduleID is not below NextEventID
StaleSeen ==
  /\ last.view # Nil
  /\ last.req.op \in DecisionTaskOps \cup ActivityTaskOps
  /\ last.req.invalid = ""
  /\ ~TaskPending(last.view, last.req)
  /\ last.req.sid >= last.view.nextEventID
  /\ last.req.op \in ActivityTaskOps => isWorkflowExecutionRunning(last.view)

\* such an iteration persists nothing and rejects nothing: it clears the
\* context, and the handler returns only when its iterations are used up
StaleIsReloaded ==
  StaleSeen =>
    /\ last.result = "stale"
    /\ ctx[last.w].msBuilder = Nil
    /\ last.returned => last.resp.kind = "ErrMaxAttemptsExceeded"

\* the handler of a task has returned that the task is not found
RejectedAsNotFound ==
  /\ last.returned /\ last.view # Nil
  /\ last.req.op \in DecisionTaskOps \cup ActivityTaskOps
  /\ last.req.invalid = ""
  /\ last.resp.kind \in NotFoundKinds

\* C31 as stated: a task that is not pending and whose scheduleID is not
\* below the cached NextEventID makes the handler clear and reload the
\* context, so that no task is rejected as not found and no update is
\* persisted from a cached state that trails the stored one
C31_NeverActsOnATrailingSnapshot ==
  /\ StaleIsReloaded
  /\ RejectedAsNotFound => last.view = execution
  /\ Persisted => last.base = last.before

\* C31: a task that is not pending and whose scheduleID is not below the
\* cached NextEventID makes the handler clear and reload the context, so
\* that such a task is not rejected as not found and no update for it is
\* persisted from that cached state
C31_StaleScheduleIDReloads ==
  /\ StaleIsReloaded
  /\ RejectedAsNotFound \/ (Persisted /\ last.req.op \in DecisionTaskOps \cup ActivityTaskOps)
       => TaskPending(last.view, last.req) \/ last.req.sid < last.view.nextEventID
            \/ ~isWorkflowExecutionRunning(last.view)

\* a handler has found the scheduleID of its task beyond the cached state
\* and goes on to reload the context
C31_Witness == StaleSeen /\ last.result = "stale" /\ ~last.returned

(***************************************************************************)
(* The acknowledgement of a standby task                                   *)
(***************************************************************************)
\* process has completed the task of the last step in the queueAckMgr of its
\* processor: the ack level of the processor has moved over the task
Acknowledged ==
  ackLevels[transferLast.p] = transferLast.task.taskID

\* C32: the standby processor completes a task in its queueAckMgr exactly
\* when the task is filtered out as not of its cluster, when the function of
\* its type returns no error, or when the run no longer exists
\* (EntityNotExists); it completes no task for which it returns ErrTaskRetry
\* or any other error
C32_AcknowledgedUnlessRetryOrError ==
  transferLast.kind = "standby" =>
    /\ Acknowledged <=>
         \/ ~transferTaskFilter(transferLast.p, transferLast.task)
         \/ transferLast.result.err = "nil"
         \/ transferLast.load = "EntityNotExists"
    /\ ~transferTaskFilter(transferLast.p, transferLast.task) => transferLast.result.err = "nil"
    /\ transferLast.load = "EntityNotExists"
         /\ transferTaskFilter(transferLast.p, transferLast.task)
         => transferLast.result.err = "EntityNotExists"
    /\ transferLast.result.err \notin {"nil", "EntityNotExists"} =>
         ackLevels[transferLast.p] < transferLast.task.taskID

\* the standby processor has met a task of a run that is deleted and has
\* completed it
C32_Witness ==
  /\ StandbyProcessed
  /\ transferLast.result.err = "EntityNotExists"
  /\ Acknowledged

(***************************************************************************)
(* The decisions of one batch that close the run                           *)
(***************************************************************************)
CloseDecisions ==
  {"CompleteWorkflowExecution", "FailWorkflowExecution", "CancelWorkflowExecution",
   "ContinueAsNewWorkflowExecution"}

\* the positions of the closing events in a batch of events
ClosingEvents(events) == {i \in 1..Len(events) : events[i].type \in ClosingTypes}

\* the positions of the closing decisions in a list of decisions
ClosingDecisions(decisions) ==
  {i \in 1..Len(decisions) : decisions[i].type \in CloseDecisions}

\* the update of a RespondDecisionTaskCompleted whose decisions were all
\* accepted has been stored
DecisionsPersisted ==
  Persisted /\ last.req.op = "RespondDecisionTaskCompleted" /\ ~last.failed

\* C33: the events that one batch of decisions adds hold at most one closing
\* event: of the Complete, Fail, Cancel and ContinueAsNew decisions of the
\* batch the first one closes the run and every later one adds no event
C33_OneClosingEventPerBatch ==
  /\ Persisted => Cardinality(ClosingEvents(last.events)) <= 1
  /\ DecisionsPersisted /\ ClosingDecisions(last.req.dec) # {} =>
       LET first == CHOOSE i \in ClosingDecisions(last.req.dec) :
                      \A j \in ClosingDecisions(last.req.dec) : i <= j
       IN /\ {last.events[i].type : i \in ClosingEvents(last.events)}
               = {CloseEventOf(last.req.dec[first].type)}
          /\ last.after.closeStatus = CloseStatusOf(last.req.dec[first].type)

\* a batch with two closing decisions has been stored
C33_Witness ==
  /\ DecisionsPersisted
  /\ Cardinality(ClosingDecisions(last.req.dec)) = 2
  /\ Cardinality(ClosingEvents(last.events)) = 1

(***************************************************************************)
(* The responses of an activity                                            *)
(***************************************************************************)
\* the activity scheduleID can be answered in ms: the run is running and the
\* activity is pending and started
Answerable(ms, scheduleID) ==
  /\ isWorkflowExecutionRunning(ms)
  /\ IsActivityPending(ms, scheduleID)
  /\ GetActivityInfo(ms, scheduleID).started # emptyEventID

ActivityEndTypes == {"ActivityTaskCompleted", "ActivityTaskFailed", "ActivityTaskCanceled"}

\* C34: RespondActivityTaskCompleted, Failed and Canceled succeed only on a
\* run that is running with the activity pending and started, and a success
\* ends the activity with one event; a response for an activity that is
\* answered already or was never started returns EntityNotExists (activity
\* task not found, or workflow completed) and persists nothing
C34_ActivityEndsAtMostOnce ==
  /\ Persisted /\ last.req.op \in ActivityResponseOps =>
       /\ Answerable(last.before, last.req.sid)
       /\ ~IsActivityPending(last.after, last.req.sid)
       /\ Cardinality({i \in 1..Len(last.events) :
                          last.events[i].type \in ActivityEndTypes})
            + Cardinality({i \in 1..Len(last.after.buffered) :
                             last.after.buffered[i] \in ActivityEndTypes})
            - Cardinality({i \in 1..Len(last.before.buffered) :
                             last.before.buffered[i] \in ActivityEndTypes}) = 1
  /\ last.returned /\ last.req.op \in ActivityResponseOps /\ last.req.invalid = ""
       /\ last.view # Nil /\ last.result = "none"
       /\ ~Answerable(execution, last.req.sid)
       => last.resp.kind \in {"ErrActivityTaskNotFound", "ErrWorkflowCompleted"}


(***************************************************************************)
(* The reply of a failed decision.                                         *)
(***************************************************************************)
\* the causes of a failed decision that are not an error of the request
SilentFailCauses == {"StartTimerDuplicateID", "UnhandledDecision"}

\* RespondDecisionTaskCompleted has persisted a batch whose decision failed
FailedDecisionPersisted ==
  /\ Persisted /\ last.req.op = "RespondDecisionTaskCompleted" /\ last.failed

\* C35: when a decision command fails attribute validation,
\* RespondDecisionTaskCompleted still commits the failed decision (the update
\* of the mutable state, with a history append that contains
\* DecisionTaskFailed when the decision is on its first attempt) and then
\* returns the BadRequest error; a decision failed for StartTimerDuplicateID
\* or UnhandledDecision returns success
C35_FailedDecisionIsCommittedThenReported ==
  FailedDecisionPersisted
    => /\ last.returned
       /\ last.resp.kind = (IF last.cause \in SilentFailCauses THEN "ok" ELSE "BadRequest")
       /\ execution = last.after
       /\ last.req.att = 0
            => Len(SelectSeq(last.events, LAMBDA e : e.type = "DecisionTaskFailed")) = 1


(***************************************************************************)
(* The tasks of a decision batch and the state they are persisted with.    *)
(***************************************************************************)
\* task refers to an event of the history or to a pending entry of the
\* mutable state ms
TaskHasReferent(task, ms) ==
  CASE task.type = "ActivityTask" ->
         \/ IsActivityPending(ms, task.sid)
         \/ /\ task.sid \in 1..Len(history)
            /\ history[task.sid] = "ActivityTaskScheduled"
    [] task.type \in {"DecisionTask", "StickyDecisionTimeout"} ->
         ms.decSched = task.sid
    [] task.type \in {"CloseExecution", "DeleteHistoryEvent"} ->
         ~isWorkflowExecutionRunning(ms)
    [] task.type = "UserTimer" -> ms.timers # {}
    [] task.type = "ActivityTimeout" -> ms.acts # {}
    [] OTHER -> TRUE

DecisionBatchPersisted ==
  Persisted /\ last.req.op = "RespondDecisionTaskCompleted"

\* C36: every transfer and timer task persisted by
\* RespondDecisionTaskCompleted refers to an event or pending entry that
\* exists in the mutable state persisted by the same update; when the
\* decision is failed, no task of the earlier commands of the batch is
\* persisted
C36_TasksReferToThePersistedState ==
  DecisionBatchPersisted
    => /\ \A i \in 1..Len(last.transferTasks) :
            TaskHasReferent(last.transferTasks[i], last.after)
       /\ \A i \in 1..Len(last.timerTasks) :
            TaskHasReferent(last.timerTasks[i], last.after)
       /\ last.failed
            => /\ TaskTypes(last.transferTasks) \subseteq {"DecisionTask"}
               /\ TaskTypes(last.timerTasks) \subseteq {"StickyDecisionTimeout"}


(***************************************************************************)
(* The commands of a batch that follow the command that closes the run.    *)
(***************************************************************************)
\* the number of commands of a type among the first n decisions
CommandsBefore(decisions, n, type) ==
  Cardinality({i \in 1..(n - 1) : decisions[i].type = type})

\* C37: the closing event of a run is the last event of its history: the
\* commands that follow the closing command of a decision batch append no
\* event after the closing event, and no transfer or timer task is emitted
\* for them
C37_NothingFollowsTheClosingEvent ==
  DecisionsPersisted /\ ClosingEvents(last.events) # {} =>
    LET first == CHOOSE i \in ClosingDecisions(last.req.dec) :
                   \A j \in ClosingDecisions(last.req.dec) : i <= j
    IN /\ Len(last.events) \in ClosingEvents(last.events)
       /\ history[Len(history)] \in ClosingTypes
       /\ CountType(last.transferTasks, "ActivityTask")
            = CommandsBefore(last.req.dec, first, "ScheduleActivityTask")
       /\ CountType(last.timerTasks, "UserTimer") > 0
            => CommandsBefore(last.req.dec, first, "StartTimer") > 0
       /\ CountType(last.timerTasks, "ActivityTimeout") > 0
            => CommandsBefore(last.req.dec, first, "ScheduleActivityTask") > 0


(***************************************************************************)
(* The ack level of the shard and the tasks that are deleted.              *)
(***************************************************************************)
\* C38: after completeTransfer every transfer task with an id at or below the
\* transfer ack level of the shard has been deleted: the ack level of the
\* shard is not moved past a task whose deletion failed
C38_AckLevelOnlyOverDeletedTasks ==
  transferLast.kind = "complete" => \A t \in queue : t.taskID > shardAck


(***************************************************************************)
(* A standby task that is retried.                                         *)
(***************************************************************************)
\* the standby processor p holds the task id for another attempt after
\* ErrTaskRetry
Retrying(p, id) == <<p, id>> \in replica.retried

\* the stored run has the shape that the task id is verified against
PostEffectStored(id) ==
  \E t \in queue :
    t.taskID = id /\ ~(replica.running /\ PostEffectPending(replica, t))

\* C39: a standby task that returned ErrTaskRetry is acknowledged in the end:
\* once the stored mutable state of the run has the expected post-effect
\* shape, a later attempt of the task sees that state and the task is
\* acknowledged
C39_RetriedTaskIsAcknowledged ==
  \A p \in Standbys : \A id \in 1..MaxTransferTasks :
    (Retrying(p, id) /\ PostEffectStored(id)) ~> (ackLevels[p] >= id)

\* a task that had returned ErrTaskRetry is acknowledged on the mutable
\* state of the cached context
C39_Witness ==
  /\ StandbyProcessed
  /\ transferLast.retried /\ transferLast.cached
  /\ transferLast.task.type \in VerifiedTaskTypes
  /\ transferLast.ms.running
  /\ transferLast.result.err = "nil"
  /\ Acknowledged


(***************************************************************************)
(* The history that a replication task carries.                            *)
(***************************************************************************)
\* the ids of the events [first, next)
EventRange(first, next) == [i \in 1..(next - first) |-> first + i - 1]

\* C40: getHistory of the replicator returns every event in
\* [firstEventID, nextEventID) of the run, also when the history store
\* returns the range in more than one page: a published replication task
\* carries no truncated history
C40_PublishedHistoryIsComplete ==
  replicatorLast.kind = "publish" =>
    replicatorLast.events
      = EventRange(replicatorLast.task.firstEventID, replicatorLast.task.nextEventID)

=========================================================================
